---- MODULE Spec2Model ----
(***************************************************************************)
(* Technical-indicator and signal-classification engine of src/main.py:    *)
(* calculate_sma, calculate_rsi, calculate_obv, calculate_adx,             *)
(* check_obv_trend and calculate_trading_signal.                           *)
(*                                                                         *)
(* Numbers: prices and volumes of a bar are integers; every derived value  *)
(* (a mean, a smoothed average, an index) is an exact rational <<n, d>>    *)
(* in lowest terms with d > 0.  Python's None is the empty tuple.          *)
(*                                                                         *)
(* Around the engine: the Alpha Vantage key pool, the batch fetches        *)
(* fetch_top10_sp500_stocks and fetch_crypto_data, generate_market_charts, *)
(* the daily loop over the users, the news sentiment                       *)
(* (calculate_composite_sentiment, fetch_market_news_sentiment, whose      *)
(* scores are IEEE 754 doubles) and the request handlers of src/app.py.    *)
(***************************************************************************)
EXTENDS Integers, Sequences, FiniteSets, TLC

None == <<>>

Abs(x) == IF x < 0 THEN -x ELSE x

RECURSIVE GCD(_, _)
GCD(a, b) == IF b = 0 THEN a ELSE GCD(b, a % b)

\* the rational n/d (d # 0) in lowest terms with a positive denominator
Rat(n, d) ==
    LET s == IF d < 0 THEN -1 ELSE 1
        g == GCD(Abs(n), Abs(d))
    IN  <<(s * n) \div g, (s * d) \div g>>

RInt(i) == <<i, 1>>
RAdd(a, b) == Rat(a[1] * b[2] + b[1] * a[2], a[2] * b[2])
RSub(a, b) == Rat(a[1] * b[2] - b[1] * a[2], a[2] * b[2])
RMul(a, b) == Rat(a[1] * b[1], a[2] * b[2])
RDiv(a, b) == Rat(a[1] * b[2], a[2] * b[1])
RLt(a, b) == a[1] * b[2] < b[1] * a[2]
RLe(a, b) == a[1] * b[2] <= b[1] * a[2]
RGt(a, b) == RLt(b, a)
RGe(a, b) == RLe(b, a)
RAbs(a) == <<Abs(a[1]), a[2]>>

Max3(a, b, c) ==
    LET m == IF a >= b THEN a ELSE b
    IN  IF m >= c THEN m ELSE c

\* s[lo] + ... + s[hi] (the range is split in halves to keep the evaluation shallow)
RECURSIVE SumRange(_, _, _)
SumRange(s, lo, hi) ==
    IF lo > hi THEN 0
    ELSE IF lo = hi THEN s[lo]
    ELSE SumRange(s, lo, (lo + hi) \div 2) + SumRange(s, (lo + hi) \div 2 + 1, hi)

SumTo(s, k) == SumRange(s, 1, k)

\* np.mean of a non-empty integer array
Mean(s) == Rat(SumTo(s, Len(s)), Len(s))

RECURSIVE RSumTo(_, _)
RSumTo(s, k) == IF k = 0 THEN RInt(0) ELSE RAdd(s[k], RSumTo(s, k - 1))

\* np.mean of a non-empty array of derived values
RMean(s) == RDiv(RSumTo(s, Len(s)), RInt(Len(s)))

\* Python's s[-k:] for k >= 0 (s[-0:] is the whole of s)
LastK(s, k) ==
    IF k = 0 \/ k >= Len(s) THEN s ELSE SubSeq(s, Len(s) - k + 1, Len(s))

\* Python's s[:k] for k >= 0
FirstK(s, k) == IF k >= Len(s) THEN s ELSE SubSeq(s, 1, k)

\* one step of Wilder's smoothing: (avg * (period - 1) + x) / period
WilderStep(avg, x, period) ==
    RDiv(RAdd(RMul(avg, RInt(period - 1)), x), RInt(period))

----------------------------------------------------------------------------
(* Indicator library *)

\* mutant: the mean of what there is when there are fewer than period values
calculate_sma_NoLengthCheck(data, period) ==
    IF Len(data) = 0 THEN None ELSE Mean(LastK(data, period))

\* mutant: the mean of the first period values, not of the last
calculate_sma_FirstWindow(data, period) ==
    IF Len(data) < period THEN None ELSE Mean(FirstK(data, period))

calculate_sma(data, period) ==
    IF Len(data) < period THEN None ELSE Mean(LastK(data, period))

\* np.diff
Deltas(prices) == [i \in 1..(Len(prices) - 1) |-> prices[i + 1] - prices[i]]

\* for i in range(lo - 1, hi): avg = (avg * (period - 1) + xs[i]) / period
\* (the range is split in halves to keep the evaluation shallow)
RECURSIVE WilderInts(_, _, _, _, _)
WilderInts(avg, xs, lo, hi, period) ==
    IF lo > hi THEN avg
    ELSE IF lo = hi THEN WilderStep(avg, RInt(xs[lo]), period)
    ELSE LET mid == (lo + hi) \div 2
         IN  CHOOSE r \in {WilderInts(left, xs, mid + 1, hi, period) :
                              left \in {WilderInts(avg, xs, lo, mid, period)}} : TRUE

\* mutant: the losses keep their sign (deltas where -deltas is meant)
RsiAverages_SignedLosses(prices, period) ==
    LET deltas == Deltas(prices)
        gains  == [i \in 1..Len(deltas) |-> IF deltas[i] > 0 THEN deltas[i] ELSE 0]
        losses == [i \in 1..Len(deltas) |-> IF deltas[i] < 0 THEN deltas[i] ELSE 0]
    IN  [avg_gain |-> WilderInts(Mean(FirstK(gains, period)), gains,
                                 period + 1, Len(gains), period),
         avg_loss |-> WilderInts(Mean(FirstK(losses, period)), losses,
                                 period + 1, Len(losses), period)]

\* mutant: the seed averages only, the smoothing loop left out
RsiAverages_NoSmoothing(prices, period) ==
    LET deltas == Deltas(prices)
        gains  == [i \in 1..Len(deltas) |-> IF deltas[i] > 0 THEN deltas[i] ELSE 0]
        losses == [i \in 1..Len(deltas) |-> IF deltas[i] < 0 THEN -deltas[i] ELSE 0]
    IN  [avg_gain |-> Mean(FirstK(gains, period)),
         avg_loss |-> Mean(FirstK(losses, period))]

\* the smoothed average gain and loss of calculate_rsi, for len > period
RsiAverages(prices, period) ==
    LET deltas == Deltas(prices)
        gains  == [i \in 1..Len(deltas) |-> IF deltas[i] > 0 THEN deltas[i] ELSE 0]
        losses == [i \in 1..Len(deltas) |-> IF deltas[i] < 0 THEN -deltas[i] ELSE 0]
    IN  [avg_gain |-> WilderInts(Mean(FirstK(gains, period)), gains,
                                 period + 1, Len(gains), period),
         avg_loss |-> WilderInts(Mean(FirstK(losses, period)), losses,
                                 period + 1, Len(losses), period)]

\* mutant: gains and losses exchanged
calculate_rsi_Swapped(prices, period) ==
    IF Len(prices) < period + 1 THEN None
    ELSE LET a == RsiAverages(prices, period)
         IN  IF a.avg_gain = RInt(0) THEN RInt(100)
             ELSE LET rs == RDiv(a.avg_loss, a.avg_gain)
                  IN  RSub(RInt(100), RDiv(RInt(100), RAdd(RInt(1), rs)))

calculate_rsi(prices, period) ==
    IF Len(prices) < period + 1 THEN None
    ELSE LET a == RsiAverages(prices, period)
         IN  IF a.avg_loss = RInt(0) THEN RInt(100)
             ELSE LET rs == RDiv(a.avg_gain, a.avg_loss)
                  IN  RSub(RInt(100), RDiv(RInt(100), RAdd(RInt(1), rs)))

\* obv[lo - 1 .. hi - 1] of the loop of calculate_obv, prev being the entry
\* before them (the range is split in halves to keep the evaluation shallow)
RECURSIVE ObvRange(_, _, _, _, _)
ObvRange(prev, closes, volumes, lo, hi) ==
    IF lo > hi THEN <<>>
    ELSE IF lo = hi
    THEN << IF closes[lo] > closes[lo - 1] THEN prev + volumes[lo]
            ELSE IF closes[lo] < closes[lo - 1] THEN prev - volumes[lo]
            ELSE prev >>
    ELSE LET mid == (lo + hi) \div 2
         IN  CHOOSE r \in {left \o ObvRange(left[Len(left)], closes, volumes, mid + 1, hi) :
                              left \in {ObvRange(prev, closes, volumes, lo, mid)}} : TRUE

\* mutant: every day adds its volume
calculate_obv_AlwaysAdds(closes, volumes) ==
    [i \in 1..Len(closes) |-> SumTo(volumes, i)]

\* mutant: obv[0] is left at the 0 np.zeros put there
calculate_obv_StartsAtZero(closes, volumes) ==
    <<0>> \o ObvRange(0, closes, volumes, 2, Len(closes))

\* closes is non-empty (obv[0] = volumes[0] raises IndexError otherwise)
calculate_obv(closes, volumes) ==
    <<volumes[1]>> \o ObvRange(volumes[1], closes, volumes, 2, Len(closes))

TrueRanges(highs, lows, closes) ==
    [k \in 1..(Len(closes) - 1) |->
        Max3(highs[k + 1] - lows[k + 1],
             Abs(highs[k + 1] - closes[k]),
             Abs(lows[k + 1] - closes[k]))]

PlusDM(highs, lows) ==
    [k \in 1..(Len(highs) - 1) |->
        LET high_diff == highs[k + 1] - highs[k]
            low_diff  == lows[k] - lows[k + 1]
        IN  IF high_diff > low_diff /\ high_diff > 0 THEN high_diff ELSE 0]

MinusDM(highs, lows) ==
    [k \in 1..(Len(highs) - 1) |->
        LET high_diff == highs[k + 1] - highs[k]
            low_diff  == lows[k] - lows[k + 1]
        IN  IF low_diff > high_diff /\ low_diff > 0 THEN low_diff ELSE 0]

\* mutant: dx is the fraction |+DI - -DI| / (+DI + -DI), not the percentage
DxStep_Fraction(st, tr_i, pdm_i, mdm_i, period) ==
    LET atr == WilderStep(st.atr, RInt(tr_i), period)
        sp  == WilderStep(st.sp, RInt(pdm_i), period)
        sm  == WilderStep(st.sm, RInt(mdm_i), period)
        plus_di  == RMul(RDiv(sp, atr), RInt(100))
        minus_di == RMul(RDiv(sm, atr), RInt(100))
    IN  [atr |-> atr, sp |-> sp, sm |-> sm,
         dx |-> IF atr = RInt(0) THEN st.dx
                ELSE IF RAdd(plus_di, minus_di) = RInt(0) THEN st.dx
                ELSE Append(st.dx, RDiv(RAbs(RSub(plus_di, minus_di)),
                                        RAdd(plus_di, minus_di)))]

\* one day of the smoothing loop of calculate_adx: st holds atr, the two
\* smoothed movements and dx_values; a day with atr = 0 or +DI + -DI = 0
\* appends nothing
DxStep(st, tr_i, pdm_i, mdm_i, period) ==
    LET atr == WilderStep(st.atr, RInt(tr_i), period)
        sp  == WilderStep(st.sp, RInt(pdm_i), period)
        sm  == WilderStep(st.sm, RInt(mdm_i), period)
        plus_di  == RMul(RDiv(sp, atr), RInt(100))
        minus_di == RMul(RDiv(sm, atr), RInt(100))
    IN  [atr |-> atr, sp |-> sp, sm |-> sm,
         dx |-> IF atr = RInt(0) THEN st.dx
                ELSE IF RAdd(plus_di, minus_di) = RInt(0) THEN st.dx
                ELSE Append(st.dx, RMul(RDiv(RAbs(RSub(plus_di, minus_di)),
                                             RAdd(plus_di, minus_di)), RInt(100)))]

\* for i in range(lo - 1, hi) of that loop (the range is split in halves to
\* keep the evaluation shallow)
RECURSIVE DxLoop(_, _, _, _, _, _, _)
DxLoop(st, tr, pdm, mdm, lo, hi, period) ==
    IF lo > hi THEN st
    ELSE IF lo = hi THEN DxStep(st, tr[lo], pdm[lo], mdm[lo], period)
    ELSE LET mid == (lo + hi) \div 2
         IN  CHOOSE r \in {DxLoop(left, tr, pdm, mdm, mid + 1, hi, period) :
                              left \in {DxLoop(st, tr, pdm, mdm, lo, mid, period)}} : TRUE

\* dx_values of calculate_adx, for len(closes) >= 2 * period
DxValues(highs, lows, closes, period) ==
    LET tr  == TrueRanges(highs, lows, closes)
        pdm == PlusDM(highs, lows)
        mdm == MinusDM(highs, lows)
        st0 == [atr |-> Mean(FirstK(tr, period)), sp |-> Mean(FirstK(pdm, period)),
                sm |-> Mean(FirstK(mdm, period)), dx |-> <<>>]
    IN  DxLoop(st0, tr, pdm, mdm, period + 1, Len(tr), period).dx

\* for i in range(lo - 1, hi): avg = (avg * (period - 1) + xs[i]) / period
RECURSIVE WilderRats(_, _, _, _, _)
WilderRats(avg, xs, lo, hi, period) ==
    IF lo > hi THEN avg
    ELSE IF lo = hi THEN WilderStep(avg, xs[lo], period)
    ELSE LET mid == (lo + hi) \div 2
         IN  CHOOSE r \in {WilderRats(left, xs, mid + 1, hi, period) :
                              left \in {WilderRats(avg, xs, lo, mid, period)}} : TRUE

calculate_adx(highs, lows, closes, period) ==
    IF Len(closes) < period * 2 THEN None
    ELSE LET dx_values == DxValues(highs, lows, closes, period)
         IN  IF Len(dx_values) < period THEN None
             ELSE WilderRats(RMean(FirstK(dx_values, period)), dx_values,
                             period + 1, Len(dx_values), period)

check_obv_trend(obv, lookback) ==
    IF Len(obv) < lookback + 1 THEN "flat"
    ELSE LET recent_obv == LastK(obv, lookback)
             rising_days ==
                 Cardinality({i \in 2..Len(recent_obv) : recent_obv[i] > recent_obv[i - 1]})
             falling_days ==
                 Cardinality({i \in 2..Len(recent_obv) : recent_obv[i] < recent_obv[i - 1]})
         IN  \* threshold = lookback * 0.6
             IF rising_days * 10 >= lookback * 6 THEN "rising"
             ELSE IF falling_days * 10 >= lookback * 6 THEN "falling"
             ELSE "flat"

----------------------------------------------------------------------------
(* calculate_trading_signal *)

VARIABLES
    pc,                 \* position in the function being modelled
    ALPHAVANTAGE_KEYS,  \* module global: the configured keys
    current_key_index,  \* module global: cursor into ALPHAVANTAGE_KEYS
    provider,           \* what the provider holds and answers for each symbol
    symbols,            \* the list a batch loops over
    idx,                \* the batch loop's index (0 outside a batch)
    stocks_data,        \* the entries a batch has collected
    returned,           \* what a batch returned, or None
    calls,              \* history: the calls made so far, oldest first
    api_key,            \* the api_key argument: a key, or NoKey
    responses,          \* the provider's answers to this call's requests
    provided,           \* the date -> bar mapping the provider holds for the symbol
    key_order,          \* provided's dates in the order the mapping lists them
    requests_sent,      \* requests.get calls made by this call
    time_series,        \* data[time_series_key]: date -> bar
    closes, highs, lows, volumes,
    current_price,
    sma50, sma200, rsi, obv, obv_sma20, adx, obv_trend,
    slope_50, slope_200,
    signal,
    result,             \* the returned dict, or None
    arg, ret,           \* argument and return value of a library function call
    user_prefs,         \* generate_market_charts: its argument
    tickers,            \* generate_market_charts: the names of the requested markets
    ticker_idx,         \* generate_market_charts: markets the loop has been through
    charts,             \* generate_market_charts: name -> chart
    users,              \* the rows of the user table, in row order
    user_info,          \* the daily batch: what read_from_database returned
    user_idx,           \* the daily batch: users the loop has been through
    log,                \* history: what the daily batch did for each user
    tokens_issued,      \* the web application: unsubscribe tokens generated so far
    outbox              \* history: the requests handled and the emails they sent

vars == <<pc, ALPHAVANTAGE_KEYS, current_key_index, provider, symbols, idx,
          stocks_data, returned, calls, api_key, responses, provided, key_order,
          requests_sent, time_series, closes, highs, lows, volumes, current_price,
          sma50, sma200, rsi, obv, obv_sma20, adx, obv_trend,
          slope_50, slope_200, signal, result, arg, ret,
          user_prefs, tickers, ticker_idx, charts,
          users, user_info, user_idx, log, tokens_issued, outbox>>

\* what a batch holds while a call of calculate_trading_signal runs
batchVars == <<ALPHAVANTAGE_KEYS, provider, symbols, idx, stocks_data, returned, calls>>

\* what the other functions of the program hold
chartVars == <<user_prefs, tickers, ticker_idx, charts>>
dailyVars == <<user_info, user_idx, log>>
webVars == <<tokens_issued, outbox>>
appVars == <<chartVars, users, dailyVars, webVars>>

\* what a call of calculate_trading_signal reads and never writes
callVars == <<batchVars, appVars, api_key, responses, provided, key_order, arg, ret>>
arrayVars == <<closes, highs, lows, volumes, current_price>>
indicatorVars == <<sma50, sma200, rsi, obv, obv_sma20, adx, obv_trend>>
slopeVars == <<slope_50, slope_200>>

\* program constants
NumKeys == 2
MinBars == 50
WindowBars == 200
ShortPeriod == 50
LongPeriod == 200
RsiPeriod == 21
ObvSmaPeriod == 20
AdxPeriod == 14
ObvLookback == 5
SlopeLookback == 5
SlopeBarsShort == 55
SlopeBarsLong == 205
AdxStrong == 25
AdxTrend == 20
RsiDip == 45
RsiBuyMax == 55
RsiSellMin == 45

\* the two configuration entries the pool is built from
ConfiguredKeys == <<"ALPHAVANTAGE_API_KEY", "ALPHAVANTAGE_API_KEY_BACKUP">>

\* a missing key: None or the empty string, both false in `if not api_key`
NoKey == ""

\* ALPHAVANTAGE_KEYS[0] of an empty pool raises
IndexError == "IndexError"

get_api_key(cursor) ==
    IF cursor < Len(ALPHAVANTAGE_KEYS) THEN ALPHAVANTAGE_KEYS[cursor + 1]
    ELSE IF Len(ALPHAVANTAGE_KEYS) = 0 THEN IndexError
    ELSE ALPHAVANTAGE_KEYS[1]

\* mutant: the cursor runs past the end of the pool
switch_api_key_NoWrap(cursor) == cursor + 1

\* switch_api_key: the cursor after one switch
switch_api_key(cursor) ==
    IF cursor + 1 >= Len(ALPHAVANTAGE_KEYS) THEN 0 ELSE cursor + 1

\* mutant: the dates in the order the mapping lists them
SortedDates_AsListed(keys) == keys

\* the dates of S in ascending order
Ascending(S) ==
    IF S = {} THEN <<>>
    ELSE LET lo == CHOOSE x \in S : \A y \in S : x <= y
             hi == CHOOSE x \in S : \A y \in S : x >= y
         IN  SelectSeq([i \in 1..(hi - lo + 1) |-> lo + i - 1],
                       LAMBDA d : d \in S)

\* sorted(time_series.keys())
SortedDates(keys) == Ascending({keys[i] : i \in 1..Len(keys)})

\* all_dates[-200:] if len(all_dates) >= 200 else all_dates
RecentDates(all_dates) ==
    IF Len(all_dates) >= WindowBars THEN LastK(all_dates, WindowBars) ELSE all_dates

\* the rules of the cascade, as the code writes their conditions
StrongBuyRule(price, s50, s200, a, r, trend) ==
    /\ RGe(price, s50) /\ RGt(s50, s200)
    /\ a # None /\ RGe(a, RInt(AdxStrong))
    /\ RLt(r, RInt(RsiDip)) /\ trend = "rising"

\* mutant: the price condition of STRONG SELL is dropped
StrongSellRule_NoPrice(price, s50, s200, a, r, trend) ==
    /\ RLt(s50, s200)
    /\ a # None /\ RGe(a, RInt(AdxStrong))
    /\ RLt(r, RInt(RsiDip)) /\ trend = "falling"

StrongSellRule(price, s50, s200, a, r, trend) ==
    /\ RLt(price, s200) /\ RLt(s50, s200)
    /\ a # None /\ RGe(a, RInt(AdxStrong))
    /\ RLt(r, RInt(RsiDip)) /\ trend = "falling"

\* mutant: an undefined adx passes the trend filter
BuyRule_NoneAdxPasses(price, s50, s200, a, r, trend) ==
    /\ RGe(price, s200)
    /\ (a = None \/ RGe(a, RInt(AdxTrend)))
    /\ RLt(r, RInt(RsiBuyMax))

BuyRule(price, s50, s200, a, r, trend) ==
    /\ RGe(price, s200)
    /\ a # None /\ RGe(a, RInt(AdxTrend))
    /\ RLt(r, RInt(RsiBuyMax))

SellRule(price, s50, s200, a, r, trend) ==
    /\ RLt(price, s50) /\ RLt(s50, s200)
    /\ a # None /\ RGe(a, RInt(AdxTrend))
    /\ RGt(r, RInt(RsiSellMin))

\* mutant: BUY is tested before the STRONG rules
SignalCascade_BuyFirst(price, s50, s200, a, r, trend) ==
    IF BuyRule(price, s50, s200, a, r, trend) THEN "BUY"
    ELSE IF StrongBuyRule(price, s50, s200, a, r, trend) THEN "STRONG BUY"
    ELSE IF StrongSellRule(price, s50, s200, a, r, trend) THEN "STRONG SELL"
    ELSE IF SellRule(price, s50, s200, a, r, trend) THEN "SELL"
    ELSE "HOLD"

\* mutant: the rules are applied under the first key only
SignalCascade_FirstKeyOnly(price, s50, s200, a, r, trend) ==
    IF current_key_index # 0 THEN "HOLD"
    ELSE IF StrongBuyRule(price, s50, s200, a, r, trend) THEN "STRONG BUY"
    ELSE IF StrongSellRule(price, s50, s200, a, r, trend) THEN "STRONG SELL"
    ELSE IF BuyRule(price, s50, s200, a, r, trend) THEN "BUY"
    ELSE IF SellRule(price, s50, s200, a, r, trend) THEN "SELL"
    ELSE "HOLD"

\* the if / elif / else chain
SignalCascade(price, s50, s200, a, r, trend) ==
    IF StrongBuyRule(price, s50, s200, a, r, trend) THEN "STRONG BUY"
    ELSE IF StrongSellRule(price, s50, s200, a, r, trend) THEN "STRONG SELL"
    ELSE IF BuyRule(price, s50, s200, a, r, trend) THEN "BUY"
    ELSE IF SellRule(price, s50, s200, a, r, trend) THEN "SELL"
    ELSE "HOLD"

signal_color(sig) ==
    CASE sig = "STRONG BUY"  -> "green"
      [] sig = "STRONG SELL" -> "red"
      [] sig = "BUY"         -> "darkgreen"
      [] sig = "SELL"        -> "darkred"
      [] OTHER               -> "orange"

\* return None, leaving the locals as they are
ReturnNone == pc' = "done" /\ result' = None /\ signal' = signal

\* mutant: the exception leaves the function
OnException_Propagates == pc' = "raised" /\ result' = None /\ signal' = signal

\* except Exception: print the traceback and return None
OnException == ReturnNone

\* a rate-limit answer ('Note' or 'Information' in data) to the first request
RateLimited(key, resps) == key # NoKey /\ resps[1] = "limited"

\* the answer the call ends with: the retry's after a rate-limit answer
LastResponse(key, resps) == IF RateLimited(key, resps) THEN resps[2] ELSE resps[1]

\* the call gets past `if time_series_key not in data`: a key was given and
\* the answer it ends with has a series
Delivered(key, resps) == key # NoKey /\ LastResponse(key, resps) = "series"

\* api-key check, request, one retry after a rate-limit answer, time-series check
Fetch ==
    /\ pc = "call"
    /\ LET limited == RateLimited(api_key, responses)
       IN  /\ requests_sent' = IF api_key = NoKey THEN 0
                               ELSE IF limited THEN 2 ELSE 1
           /\ current_key_index' = IF limited THEN switch_api_key(current_key_index)
                                   ELSE current_key_index
           /\ IF Delivered(api_key, responses)
              THEN /\ time_series' = provided
                   /\ pc' = "fetched"
                   /\ UNCHANGED <<result, signal>>
              ELSE /\ time_series' = time_series
                   /\ IF api_key # NoKey /\ LastResponse(api_key, responses) = "exception"
                      THEN OnException
                      ELSE ReturnNone
    /\ UNCHANGED <<callVars, arrayVars, indicatorVars, slopeVars>>

\* sort the dates, check the length, keep the most recent bars, extract the arrays
Preprocess ==
    /\ pc = "fetched"
    /\ \E all_dates \in {SortedDates(key_order)} :
       \E recent_dates \in {RecentDates(all_dates)} :
           IF Len(all_dates) < MinBars
           THEN /\ ReturnNone
                /\ UNCHANGED arrayVars
           ELSE /\ closes'  = [i \in 1..Len(recent_dates) |-> time_series[recent_dates[i]].close]
                /\ volumes' = [i \in 1..Len(recent_dates) |-> time_series[recent_dates[i]].volume]
                /\ highs'   = [i \in 1..Len(recent_dates) |-> time_series[recent_dates[i]].high]
                /\ lows'    = [i \in 1..Len(recent_dates) |-> time_series[recent_dates[i]].low]
                /\ current_price' = RInt(time_series[recent_dates[Len(recent_dates)]].close)
                /\ pc' = "extracted"
                /\ UNCHANGED <<result, signal>>
    /\ UNCHANGED <<callVars, current_key_index, requests_sent, time_series,
                   indicatorVars, slopeVars>>

\* if sma50 is None or sma200 is None or rsi is None or obv_sma20 is None
IndicatorMissing(s50, s200, r, o20) ==
    s50 = None \/ s200 = None \/ r = None \/ o20 = None

\* the indicators, and the return of None when one of them is missing
Indicators ==
    /\ pc = "extracted"
    /\ \E the_obv \in {calculate_obv(closes, volumes)} :
           /\ sma50' = calculate_sma(closes, ShortPeriod)
           /\ sma200' = calculate_sma(closes, LongPeriod)
           /\ rsi' = calculate_rsi(closes, RsiPeriod)
           /\ obv' = the_obv
           /\ obv_sma20' = calculate_sma(the_obv, ObvSmaPeriod)
           /\ adx' = calculate_adx(highs, lows, closes, AdxPeriod)
           /\ obv_trend' = check_obv_trend(the_obv, ObvLookback)
    /\ IF IndicatorMissing(sma50', sma200', rsi', obv_sma20')
       THEN ReturnNone
       ELSE pc' = "indicators" /\ UNCHANGED <<result, signal>>
    /\ UNCHANGED <<callVars, current_key_index, requests_sent, time_series,
                   arrayVars, slopeVars>>

\* the 5-day slopes of the two moving averages
Slopes ==
    /\ pc = "indicators"
    /\ LET n == Len(closes)
           \* closes[-55:-5] and closes[-205:-5]
           sma50_5days_ago ==
               IF n >= SlopeBarsLong \/ n >= SlopeBarsShort
               THEN Mean(SubSeq(closes, n - SlopeBarsShort + 1, n - SlopeLookback))
               ELSE sma50
           sma200_5days_ago ==
               IF n >= SlopeBarsLong
               THEN Mean(SubSeq(closes, n - SlopeBarsLong + 1, n - SlopeLookback))
               ELSE sma200
       IN  /\ slope_50' = RSub(sma50, sma50_5days_ago)
           /\ slope_200' = RSub(sma200, sma200_5days_ago)
    /\ pc' = "slopes"
    /\ UNCHANGED <<callVars, current_key_index, requests_sent, time_series,
                   arrayVars, indicatorVars, signal, result>>

\* the rule cascade and the returned dict
Classify ==
    /\ pc = "slopes"
    /\ signal' = SignalCascade(current_price, sma50, sma200, adx, rsi, obv_trend)
    /\ result' = [signal |-> signal', signal_color |-> signal_color(signal'),
                  rsi |-> rsi, adx |-> adx, obv_trend |-> obv_trend,
                  sma50 |-> sma50, sma200 |-> sma200,
                  obv |-> obv[Len(obv)], obv_sma20 |-> obv_sma20,
                  current_price |-> current_price,
                  previous_close |-> IF Len(closes) >= 2
                                     THEN RInt(closes[Len(closes) - 1])
                                     ELSE current_price]
    /\ pc' = "done"
    /\ UNCHANGED <<callVars, current_key_index, requests_sent, time_series,
                   arrayVars, indicatorVars, slopeVars>>

----------------------------------------------------------------------------------------------------------------------------------------
(* Specification Spec: one call of calculate_trading_signal.  The provider  *)
(* holds n daily bars on dates 1..n whose closes move by a constant step    *)
(* (ending at base when falling, starting at base otherwise), with highs    *)
(* and lows a constant spread around the close and a volume growing by a    *)
(* constant increment.                                                      *)

Lengths == {0, 49, 50, 60, 199, 200, 204, 205, 210}
Bases == {100}
Steps == {-1, 0, 1}
Spreads == {0, 1}
BaseVolumes == {1000}
VolumeSteps == {0, 10}
ResponseKinds == {"series", "limited", "error", "exception"}

\* the answers a call can get: one, or a rate-limit answer and the retry's
ResponseSeqs ==
    {<<r>> : r \in ResponseKinds \ {"limited"}} \cup {<<"limited", r>> : r \in ResponseKinds}

Reverse(s) == [i \in 1..Len(s) |-> s[Len(s) + 1 - i]]

\* the dates of a mapping, newest first (the order the provider lists them in)
NewestFirst(ts) == Reverse(Ascending(DOMAIN ts))
Signals == {"STRONG BUY", "BUY", "HOLD", "SELL", "STRONG SELL"}

LinearSeries(n, base, step, spread, vol, vstep) ==
    [d \in 1..n |->
        LET c == IF step >= 0 THEN base + step * (d - 1)
                 ELSE base + (-step) * (n - d)
        IN  [close |-> c, high |-> c + spread, low |-> c - spread,
             volume |-> vol + vstep * (d - 1)]]

\* the locals of a call that has not assigned them yet
NoLocals ==
    /\ requests_sent = 0
    /\ time_series = None
    /\ closes = None /\ highs = None /\ lows = None /\ volumes = None
    /\ current_price = None
    /\ sma50 = None /\ sma200 = None /\ rsi = None /\ obv = None
    /\ obv_sma20 = None /\ adx = None /\ obv_trend = "flat"
    /\ slope_50 = None /\ slope_200 = None
    /\ signal = "none"
    /\ result = None

\* no call of generate_market_charts is running
NoCharts ==
    /\ user_prefs = None /\ tickers = <<>> /\ ticker_idx = 0 /\ charts = <<>>

\* the daily batch is not running
NoDaily ==
    /\ user_info = <<>> /\ user_idx = 0 /\ log = <<>>

\* the web application has handled no request and the table is empty
NoWeb ==
    /\ users = <<>> /\ tokens_issued = 0 /\ outbox = <<>>

\* none of the other functions is running
NoApp == NoCharts /\ NoDaily /\ NoWeb

\* no batch is running
NoBatch ==
    /\ NoApp
    /\ provider = None /\ symbols = <<>> /\ idx = 0
    /\ stocks_data = <<>> /\ returned = None /\ calls = <<>>

Init ==
    /\ pc = "call"
    /\ ALPHAVANTAGE_KEYS = ConfiguredKeys
    /\ current_key_index \in 0..(NumKeys - 1)
    /\ NoBatch
    /\ api_key \in {NoKey, get_api_key(current_key_index)}
    /\ responses \in ResponseSeqs
    /\ provided \in {LinearSeries(n, base, step, spread, vol, vstep) :
                        n \in Lengths, base \in Bases, step \in Steps,
                        spread \in Spreads, vol \in BaseVolumes, vstep \in VolumeSteps}
    /\ key_order = NewestFirst(provided)
    /\ NoLocals
    /\ arg = None /\ ret = None

Next == Fetch \/ Preprocess \/ Indicators \/ Slopes \/ Classify

Spec == Init /\ [][Next]_vars

----------------------------------------------------------------------------
(* Specification SpecOrder: one call of calculate_trading_signal on a       *)
(* mapping whose dates skip the weekends and are listed oldest first,       *)
(* newest first, or with the odd positions before the even ones.            *)

OrderLengths == {49, 50, 199, 200, 201, 210}
OrderSteps == {-1, 1}

\* the date of the d-th trading day: five days a week
TradingDate(d) == 7 * ((d - 1) \div 5) + ((d - 1) % 5) + 1

\* the trading day that falls on date t
TradingDay(t) == 5 * ((t - 1) \div 7) + ((t - 1) % 7) + 1

\* LinearSeries on trading dates
TradingSeries(n, base, step, spread, vol, vstep) ==
    [t \in {TradingDate(d) : d \in 1..n} |->
        LinearSeries(n, base, step, spread, vol, vstep)[TradingDay(t)]]

\* the entries at the odd positions of s, then those at the even positions
OddsFirst(s) ==
    LET odds == (Len(s) + 1) \div 2
    IN  [i \in 1..Len(s) |-> IF i <= odds THEN s[2 * i - 1] ELSE s[2 * (i - odds)]]

KeyOrders(ts) ==
    {Ascending(DOMAIN ts), NewestFirst(ts), OddsFirst(Ascending(DOMAIN ts))}

InitOrder ==
    /\ pc = "call"
    /\ ALPHAVANTAGE_KEYS = ConfiguredKeys
    /\ current_key_index = 0
    /\ NoBatch
    /\ api_key = get_api_key(current_key_index)
    /\ responses \in {<<"series">>, <<"limited", "series">>}
    /\ provided \in {TradingSeries(n, 100, step, 1, 1000, 10) :
                        n \in OrderLengths, step \in OrderSteps}
    /\ key_order \in KeyOrders(provided)
    /\ NoLocals
    /\ arg = None /\ ret = None

SpecOrder == InitOrder /\ [][Next]_vars

----------------------------------------------------------------------------
(* Specification SpecCascade: the rule cascade of calculate_trading_signal  *)
(* on every combination of indicator values of a grid around its            *)
(* thresholds.  The arrays are cut to their last two bars: the cascade      *)
(* reads the indicators only.                                               *)

PriceLevels == 3

RsiGrid ==
    {RInt(r) : r \in {0, RsiDip - 1, RsiDip, RsiDip + 1,
                      RsiBuyMax - 1, RsiBuyMax, RsiBuyMax + 1, 100}}

AdxGrid ==
    {None} \cup {RInt(a) : a \in {0, AdxTrend - 1, AdxTrend, AdxStrong - 1, AdxStrong, 100}}

InitCascade ==
    /\ pc = "slopes"
    /\ ALPHAVANTAGE_KEYS = ConfiguredKeys /\ current_key_index = 0
    /\ NoBatch
    /\ api_key = get_api_key(current_key_index) /\ responses = <<"series">>
    /\ provided = None /\ key_order = <<>>
    /\ requests_sent = 1 /\ time_series = None
    /\ \E p \in 1..PriceLevels :
           /\ current_price = RInt(p)
           /\ closes = <<p, p>> /\ highs = <<p, p>> /\ lows = <<p, p>>
    /\ volumes = <<0, 0>>
    /\ sma50 \in {RInt(p) : p \in 1..PriceLevels}
    /\ sma200 \in {RInt(p) : p \in 1..PriceLevels}
    /\ rsi \in RsiGrid
    /\ adx \in AdxGrid
    /\ obv_trend \in {"rising", "falling", "flat"}
    /\ obv = <<0, 0>> /\ obv_sma20 = RInt(0)
    /\ slope_50 = RInt(0) /\ slope_200 = RInt(0)
    /\ signal = "none" /\ result = None
    /\ arg = None /\ ret = None

NextCascade == Classify

SpecCascade == InitCascade /\ [][NextCascade]_vars

----------------------------------------------------------------------------
(* Specification SpecLib: one call of an indicator function on every input  *)
(* of bounded size.                                                         *)

MaxObvLen == 6
ObvLevels == 3
MaxLookback == 5
MaxAdxLen == 5
MaxAdxPeriod == 2

SeqsUpTo(S, n) == UNION {[1..k -> S] : k \in 0..n}

\* bars around a close of 3 or 4: high = low = close, a high one above the
\* close, or a high one above and a low one below it
BarShapes ==
    {[close |-> c, high |-> c + w[1], low |-> c - w[2]] :
        c \in {3, 4}, w \in {<<0, 0>>, <<1, 0>>, <<1, 1>>}}

ObvTrendArgs ==
    {[fn |-> "check_obv_trend", obv |-> o, lookback |-> k] :
        o \in SeqsUpTo(0..(ObvLevels - 1), MaxObvLen), k \in 1..MaxLookback}

AdxArgs ==
    {[fn |-> "calculate_adx",
      highs  |-> [i \in 1..Len(b) |-> b[i].high],
      lows   |-> [i \in 1..Len(b) |-> b[i].low],
      closes |-> [i \in 1..Len(b) |-> b[i].close],
      period |-> p] :
        b \in SeqsUpTo(BarShapes, MaxAdxLen), p \in 1..MaxAdxPeriod}

\* no call of calculate_trading_signal is running
NoCall ==
    /\ ALPHAVANTAGE_KEYS = ConfiguredKeys /\ current_key_index = 0
    /\ NoBatch
    /\ api_key = NoKey /\ responses = <<"error">>
    /\ provided = None /\ key_order = <<>>
    /\ NoLocals

InitLib ==
    /\ pc = "lib_call"
    /\ arg \in ObvTrendArgs \cup AdxArgs
    /\ ret = None
    /\ NoCall

libFrame == <<batchVars, appVars, api_key, responses, provided, key_order, current_key_index,
              requests_sent, time_series, arrayVars, indicatorVars, slopeVars,
              signal, result, arg>>

CallObvTrend ==
    /\ pc = "lib_call" /\ arg.fn = "check_obv_trend"
    /\ ret' = check_obv_trend(arg.obv, arg.lookback)
    /\ pc' = "lib_done"
    /\ UNCHANGED libFrame

CallAdx ==
    /\ pc = "lib_call" /\ arg.fn = "calculate_adx"
    /\ ret' = calculate_adx(arg.highs, arg.lows, arg.closes, arg.period)
    /\ pc' = "lib_done"
    /\ UNCHANGED libFrame

NextLib == CallObvTrend \/ CallAdx

SpecLib == InitLib /\ [][NextLib]_vars

----------------------------------------------------------------------------
(* Specification SpecSeries: one call of calculate_rsi, calculate_sma or    *)
(* calculate_obv on every series of bounded size, or of calculate_adx on a  *)
(* price ramp: closes rising by a constant positive step, the highs a       *)
(* constant offset above and the lows a constant offset below them.         *)

MaxSeriesLen == 5
SeriesLevels == 3
MaxPeriod == 3
MaxObvBars == 4
ObvVolumeLevels == 2
MaxRampLen == 31
MaxRampStep == 2
MaxRampOffset == 1

RsiArgs ==
    {[fn |-> "calculate_rsi", prices |-> s, period |-> p] :
        s \in SeqsUpTo(0..(SeriesLevels - 1), MaxSeriesLen), p \in 1..MaxPeriod}

SmaArgs ==
    {[fn |-> "calculate_sma", data |-> s, period |-> p] :
        s \in SeqsUpTo(0..(SeriesLevels - 1), MaxSeriesLen), p \in 1..MaxPeriod}

\* closes and volumes of the same, non-zero, length: the closes start at
\* MaxObvBars and move by moves[i] a day
ObvArg(moves, vols) ==
    [fn |-> "calculate_obv",
     closes |-> [i \in 1..Len(vols) |-> MaxObvBars + SumTo(moves, i - 1)],
     volumes |-> vols]

Ramp(n, base, step, up, down) ==
    [highs  |-> [d \in 1..n |-> base + step * (d - 1) + up],
     lows   |-> [d \in 1..n |-> base + step * (d - 1) - down],
     closes |-> [d \in 1..n |-> base + step * (d - 1)]]

RampArgs ==
    {[fn |-> "calculate_adx",
      highs  |-> Ramp(n, 10, step, up, down).highs,
      lows   |-> Ramp(n, 10, step, up, down).lows,
      closes |-> Ramp(n, 10, step, up, down).closes,
      period |-> p] :
        n \in 0..MaxRampLen, step \in 1..MaxRampStep,
        up \in 0..MaxRampOffset, down \in 0..MaxRampOffset,
        p \in (1..MaxPeriod) \cup {AdxPeriod}}

InitSeries ==
    /\ pc = "lib_call"
    /\ \/ arg \in RsiArgs \cup SmaArgs \cup RampArgs
       \/ \E k \in 1..MaxObvBars :
              \E moves \in [1..(k - 1) -> {-1, 0, 1}],
                 vols \in [1..k -> 0..(ObvVolumeLevels - 1)] :
                  arg = ObvArg(moves, vols)
    /\ ret = None
    /\ NoCall

CallRsi ==
    /\ pc = "lib_call" /\ arg.fn = "calculate_rsi"
    /\ ret' = calculate_rsi(arg.prices, arg.period)
    /\ pc' = "lib_done"
    /\ UNCHANGED libFrame

CallSma ==
    /\ pc = "lib_call" /\ arg.fn = "calculate_sma"
    /\ ret' = calculate_sma(arg.data, arg.period)
    /\ pc' = "lib_done"
    /\ UNCHANGED libFrame

CallObv ==
    /\ pc = "lib_call" /\ arg.fn = "calculate_obv"
    /\ ret' = calculate_obv(arg.closes, arg.volumes)
    /\ pc' = "lib_done"
    /\ UNCHANGED libFrame

NextSeries == CallRsi \/ CallSma \/ CallObv \/ CallAdx

SpecSeries == InitSeries /\ [][NextSeries]_vars

----------------------------------------------------------------------------
(* Specification SpecKeys: calls of switch_api_key and get_api_key, in any  *)
(* order, on each pool the two configuration entries can give.              *)

MaxCalls == 6

\* the pool when only some of the configuration entries are set
KeyPools == {<<>>, <<ConfiguredKeys[1]>>, <<ConfiguredKeys[2]>>, ConfiguredKeys}

InitKeys ==
    /\ pc = "keys"
    /\ ALPHAVANTAGE_KEYS \in KeyPools
    /\ current_key_index = 0
    /\ NoBatch
    /\ api_key = NoKey /\ responses = <<"error">>
    /\ provided = None /\ key_order = <<>>
    /\ NoLocals
    /\ arg = None /\ ret = NoKey

keysFrame == <<pc, appVars, ALPHAVANTAGE_KEYS, provider, symbols, idx, stocks_data, returned,
               api_key, responses, provided, key_order, requests_sent, time_series,
               arrayVars, indicatorVars, slopeVars, signal, result, arg>>

SwitchApiKey ==
    /\ pc = "keys" /\ Len(calls) < MaxCalls
    /\ current_key_index' = switch_api_key(current_key_index)
    /\ ret' = get_api_key(current_key_index')
    /\ calls' = Append(calls, [fn |-> "switch_api_key",
                               cursor |-> current_key_index', ret |-> ret'])
    /\ UNCHANGED keysFrame

GetApiKey ==
    /\ pc = "keys" /\ Len(calls) < MaxCalls
    /\ ret' = get_api_key(current_key_index)
    /\ calls' = Append(calls, [fn |-> "get_api_key",
                               cursor |-> current_key_index, ret |-> ret'])
    /\ UNCHANGED <<keysFrame, current_key_index>>

NextKeys == SwitchApiKey \/ GetApiKey

SpecKeys == InitKeys /\ [][NextKeys]_vars

----------------------------------------------------------------------------
(* fetch_top10_sp500_stocks and fetch_crypto_data: the same loop over a     *)
(* list of symbols, each symbol one call of calculate_trading_signal.       *)

TOP_10_SP500 ==
    <<"NVDA", "AAPL", "MSFT", "AMZN", "GOOGL", "AVGO", "GOOG", "META", "TSLA", "BRK.B">>

cryptos == <<"BTC", "ETH">>

\* the fewest collected entries a batch returns instead of the mock data
MinStocks == 5
MinCryptos == 1

min_entries(syms) == IF syms = cryptos THEN MinCryptos ELSE MinStocks

\* base_prices of generate_mock_top10_data and generate_mock_crypto_data
base_price(symbol) ==
    CASE symbol = "NVDA" -> 500 [] symbol = "AAPL" -> 175 [] symbol = "MSFT" -> 380
      [] symbol = "AMZN" -> 145 [] symbol = "GOOGL" -> 140 [] symbol = "AVGO" -> 170
      [] symbol = "GOOG" -> 138 [] symbol = "META" -> 330 [] symbol = "TSLA" -> 245
      [] symbol = "BRK.B" -> 360 [] symbol = "BTC" -> 43500 [] symbol = "ETH" -> 2280

\* the mock entries: one per symbol at its base price (the other fields are
\* draws of a seeded random generator and are left out)
generate_mock_data(syms) ==
    [i \in 1..Len(syms) |-> [symbol |-> syms[i], price |-> RInt(base_price(syms[i]))]]

\* what the provider answers and holds, by kind of symbol
ProviderInput(kind) ==
    CASE kind = "falling" ->
             [responses |-> <<"series">>, series |-> LinearSeries(200, 100, -1, 1, 1000, 10)]
      [] kind = "rising" ->
             [responses |-> <<"series">>, series |-> LinearSeries(200, 100, 1, 1, 1000, 10)]
      [] kind = "short" ->
             [responses |-> <<"series">>, series |-> LinearSeries(49, 100, 1, 1, 1000, 10)]
      [] kind = "partial" ->
             [responses |-> <<"series">>, series |-> LinearSeries(60, 100, 1, 1, 1000, 10)]
      [] kind = "error" ->
             [responses |-> <<"error">>, series |-> None]
      [] kind = "exception" ->
             [responses |-> <<"exception">>, series |-> None]
      [] kind = "limited_falling" ->
             [responses |-> <<"limited", "series">>,
              series |-> LinearSeries(200, 100, -1, 1, 1000, 10)]
      [] kind = "limited_twice" ->
             [responses |-> <<"limited", "limited">>, series |-> None]
      [] kind = "negative_start" ->
             [responses |-> <<"series">>, series |-> LinearSeries(200, -5, 1, 1, 1000, 10)]
      [] kind = "ends_at_zero" ->
             [responses |-> <<"series">>, series |-> LinearSeries(200, 0, -1, 1, 1000, 10)]

\* if not get_api_key(): mock data; else api_key = get_api_key(), stocks_data = []
BatchStart ==
    /\ pc = "batch_start"
    /\ \E key \in {get_api_key(current_key_index)} :
           IF key = IndexError
           THEN pc' = "batch_raised" /\ UNCHANGED <<api_key, returned>>
           ELSE IF key = NoKey
           THEN /\ pc' = "batch_done"
                /\ returned' = generate_mock_data(symbols)
                /\ UNCHANGED api_key
           ELSE /\ pc' = "batch"
                /\ api_key' = key
                /\ UNCHANGED returned
    /\ stocks_data' = <<>>
    /\ UNCHANGED <<appVars, ALPHAVANTAGE_KEYS, current_key_index, provider, symbols, idx, calls,
                   responses, provided, key_order, requests_sent, time_series,
                   arrayVars, indicatorVars, slopeVars, signal, result, arg, ret>>

\* the next iteration of the loop: calculate_trading_signal(symbol, api_key)
CallSignal ==
    /\ pc = "batch" /\ idx < Len(symbols)
    /\ idx' = idx + 1
    /\ \E input \in {ProviderInput(provider[symbols[idx + 1]])} :
           /\ responses' = input.responses
           /\ provided' = input.series
           /\ key_order' = NewestFirst(input.series)
    /\ requests_sent' = 0
    /\ time_series' = None
    /\ closes' = None /\ highs' = None /\ lows' = None /\ volumes' = None
    /\ current_price' = None
    /\ sma50' = None /\ sma200' = None /\ rsi' = None /\ obv' = None
    /\ obv_sma20' = None /\ adx' = None /\ obv_trend' = "flat"
    /\ slope_50' = None /\ slope_200' = None
    /\ signal' = "none"
    /\ result' = None
    /\ pc' = "call"
    /\ UNCHANGED <<appVars, ALPHAVANTAGE_KEYS, current_key_index, provider, symbols,
                   stocks_data, returned, calls, api_key, arg, ret>>

\* the entry appended for a symbol whose call returned trading_signal
stock_info(symbol, trading_signal) ==
    LET price == trading_signal.current_price
        previous_close == trading_signal.previous_close
        daily_change == RSub(price, previous_close)
    IN  [symbol |-> symbol,
         price |-> price,
         change |-> daily_change,
         change_pct |-> RMul(RDiv(daily_change, previous_close), RInt(100)),
         direction |-> IF RGe(daily_change, RInt(0)) THEN "up" ELSE "down",
         signal |-> trading_signal.signal,
         signal_color |-> trading_signal.signal_color,
         rsi |-> trading_signal.rsi,
         adx |-> trading_signal.adx,
         obv_trend |-> trading_signal.obv_trend,
         sma50 |-> trading_signal.sma50,
         sma200 |-> trading_signal.sma200]

\* if trading_signal: if current_price > 0 and previous_close > 0
Collectable(trading_signal) ==
    IF trading_signal = None THEN FALSE
    ELSE /\ RGt(trading_signal.current_price, RInt(0))
         /\ RGt(trading_signal.previous_close, RInt(0))

\* the rest of the iteration, once the call has returned
Collect ==
    /\ pc = "done"
    /\ stocks_data' = IF Collectable(result)
                      THEN Append(stocks_data, stock_info(symbols[idx], result))
                      ELSE stocks_data
    /\ calls' = Append(calls, [symbol |-> symbols[idx], result |-> result,
                               delivered |-> time_series # None,
                               cursor |-> current_key_index])
    /\ pc' = "batch"
    /\ UNCHANGED <<appVars, ALPHAVANTAGE_KEYS, current_key_index, provider, symbols, idx,
                   returned, api_key, responses, provided, key_order, requests_sent,
                   time_series, arrayVars, indicatorVars, slopeVars, signal, result,
                   arg, ret>>

\* after the loop: the collected entries if there are enough, else the mock data
BatchReturn ==
    /\ pc = "batch" /\ idx = Len(symbols)
    /\ returned' = IF Len(stocks_data) >= min_entries(symbols) THEN stocks_data
                   ELSE generate_mock_data(symbols)
    /\ pc' = "batch_done"
    /\ UNCHANGED <<appVars, ALPHAVANTAGE_KEYS, current_key_index, provider, symbols, idx,
                   stocks_data, calls, api_key, responses, provided, key_order,
                   requests_sent, time_series, arrayVars, indicatorVars, slopeVars,
                   signal, result, arg, ret>>

----------------------------------------------------------------------------
(* Specification SpecBatch: one run of fetch_top10_sp500_stocks or of       *)
(* fetch_crypto_data.  The stock symbols are of kind "falling" except for   *)
(* the first k symbols, or one symbol, which are of one other kind; the two *)
(* crypto symbols are of any two kinds.                                     *)

ProviderKinds ==
    {"falling", "rising", "short", "partial", "error", "exception",
     "limited_falling", "limited_twice", "negative_start", "ends_at_zero"}

\* the positions of the symbols of the other kind: none, the first, one in the
\* middle, and as many as leave just enough or just too few of kind "falling"
OtherPositions(n) ==
    {1..k : k \in {0, 1, n - MinStocks, n - MinStocks + 1}} \cup {{n \div 2}}

Providers(syms) ==
    IF syms = cryptos
    THEN {[sym \in {syms[i] : i \in 1..Len(syms)} |->
              IF sym = syms[1] THEN k1 ELSE k2] : k1 \in ProviderKinds, k2 \in ProviderKinds}
    ELSE {[sym \in {syms[i] : i \in 1..Len(syms)} |->
              IF sym \in {syms[i] : i \in B} THEN other ELSE "falling"] :
              B \in OtherPositions(Len(syms)), other \in ProviderKinds}

InitBatch ==
    /\ pc = "batch_start"
    /\ ALPHAVANTAGE_KEYS \in {<<>>, ConfiguredKeys}
    /\ current_key_index \in IF ALPHAVANTAGE_KEYS = <<>> THEN {0} ELSE 0..(NumKeys - 1)
    /\ symbols \in {TOP_10_SP500, cryptos}
    /\ provider \in Providers(symbols)
    /\ idx = 0 /\ stocks_data = <<>> /\ returned = None /\ calls = <<>>
    /\ api_key = NoKey /\ responses = <<"error">>
    /\ provided = None /\ key_order = <<>>
    /\ NoLocals
    /\ NoApp
    /\ arg = None /\ ret = None

NextBatch ==
    \/ BatchStart \/ CallSignal
    \/ Fetch \/ Preprocess \/ Indicators \/ Slopes \/ Classify
    \/ Collect \/ BatchReturn

SpecBatch == InitBatch /\ [][NextBatch]_vars

----------------------------------------------------------------------------
(* generate_market_charts and fetch_alphavantage_data *)

\* the candles fetch_alphavantage_data keeps, the fewest it returns, and the
\* candles of the mock data
KeptCandles == 100
MinCandles == 5
MockCandles == 100

\* the days a delivered series holds
ChartDays == {4, 5, 101}

Markets == <<"sp500", "nasdaq", "bitcoin">>

\* the name a chart of the market goes by
ChartName(market) ==
    CASE market = "sp500" -> "S&P 500"
      [] market = "nasdaq" -> "NASDAQ"
      [] market = "bitcoin" -> "Bitcoin"

DefaultPrefs == [sp500 |-> TRUE, nasdaq |-> TRUE, bitcoin |-> TRUE]

\* the tickers dictionary, as the names in insertion order
RequestedTickers(prefs) ==
    LET given == IF prefs = None THEN DefaultPrefs ELSE prefs
        chosen(market) == IF given[market] THEN <<ChartName(market)>> ELSE <<>>
    IN  chosen("sp500") \o chosen("nasdaq") \o chosen("bitcoin")

\* mutant: the retry after a rate-limit answer is itself retried
ChartRequests_RetryAgain(resps) ==
    IF resps[1] # "limited" THEN 1
    ELSE IF resps[2] = "limited" THEN 3 ELSE 2

\* requests.get calls of one fetch_alphavantage_data: a second one only
\* after a rate-limit answer to the first
ChartRequests(resps) == IF resps[1] = "limited" THEN 2 ELSE 1

\* one call of fetch_alphavantage_data with the cursor at `cursor`, answered
\* by resps, a delivered series holding n days: the returned OHLC data (None
\* if there is none), whether the last answer had a series, the requests
\* sent, and the cursor before and afterwards
fetch_alphavantage_data(key, cursor, resps, n) ==
    LET limited == resps[1] = "limited"
        last == IF limited THEN resps[2] ELSE resps[1]
        candles == IF n > KeptCandles THEN KeptCandles ELSE n
        after == IF limited THEN switch_api_key(cursor) ELSE cursor
    IN  [ohlc_data |-> IF last = "series" /\ candles >= MinCandles
                       THEN [candles |-> candles] ELSE None,
         delivered |-> last = "series",
         requests |-> ChartRequests(resps),
         cursor_before |-> cursor,
         cursor |-> after]

\* tickers from user_prefs; `if not tickers: return charts`
ChartsStart ==
    /\ pc = "charts_start"
    /\ tickers' = RequestedTickers(user_prefs)
    /\ charts' = <<>>
    /\ ticker_idx' = 0
    /\ pc' = IF tickers' = <<>> THEN "charts_done" ELSE "charts"
    /\ UNCHANGED <<batchVars, users, dailyVars, webVars, user_prefs, current_key_index,
                   api_key, responses, provided, key_order, requests_sent, time_series, arrayVars,
                   indicatorVars, slopeVars, signal, result, arg, ret>>

\* the chart entry stored under a name
ChartEntry(name, ohlc_data, data_source) ==
    [name |-> name, candles |-> ohlc_data.candles, data_source |-> data_source]

\* one iteration of the loop over tickers: the primary key, the backup key,
\* the mock data, the chart
GenerateChart ==
    /\ pc = "charts" /\ ticker_idx < Len(tickers)
    /\ ticker_idx' = ticker_idx + 1
    /\ IF get_api_key(current_key_index) = IndexError
       THEN \* raised at `if get_api_key():`, caught by the loop's handler: continue
            UNCHANGED <<charts, current_key_index, calls>>
       ELSE \E r1 \in ResponseSeqs, r2 \in ResponseSeqs, n \in ChartDays :
                LET name == tickers[ticker_idx + 1]
                    primary == fetch_alphavantage_data(get_api_key(current_key_index),
                                                       current_key_index, r1, n)
                    with_backup == primary.ohlc_data = None /\ Len(ALPHAVANTAGE_KEYS) > 1
                    backup == fetch_alphavantage_data(ALPHAVANTAGE_KEYS[2],
                                                      primary.cursor, r2, n)
                    ohlc_data == IF with_backup THEN backup.ohlc_data ELSE primary.ohlc_data
                    entry == IF ohlc_data = None
                             THEN ChartEntry(name, [candles |-> MockCandles], "Mock Data")
                             ELSE IF with_backup
                             THEN ChartEntry(name, ohlc_data, "Alpha Vantage (Backup)")
                             ELSE ChartEntry(name, ohlc_data, "Alpha Vantage")
                IN  /\ charts' = [nm \in DOMAIN charts \cup {name} |->
                                     IF nm = name THEN entry ELSE charts[nm]]
                    /\ current_key_index' = IF with_backup THEN backup.cursor
                                            ELSE primary.cursor
                    /\ calls' = IF with_backup THEN calls \o <<primary, backup>>
                                ELSE Append(calls, primary)
    /\ pc' = "charts"
    /\ UNCHANGED <<ALPHAVANTAGE_KEYS, provider, symbols, idx, stocks_data, returned,
                   users, dailyVars, webVars, user_prefs, tickers, api_key, responses, provided, key_order,
                   requests_sent, time_series, arrayVars, indicatorVars, slopeVars,
                   signal, result, arg, ret>>

\* return charts
ChartsReturn ==
    /\ pc = "charts" /\ ticker_idx = Len(tickers)
    /\ pc' = "charts_done"
    /\ UNCHANGED <<callVars, current_key_index, requests_sent, time_series,
                   arrayVars, indicatorVars, slopeVars, signal, result>>

----------------------------------------------------------------------------
(* Specification SpecCharts: one call of generate_market_charts, every      *)
(* request answered in any of the ways a request can be answered.           *)

PrefsGiven == {None} \cup [sp500 : BOOLEAN, nasdaq : BOOLEAN, bitcoin : BOOLEAN]

InitCharts ==
    /\ pc = "charts_start"
    /\ ALPHAVANTAGE_KEYS \in KeyPools
    /\ current_key_index \in IF ALPHAVANTAGE_KEYS = <<>> THEN {0}
                             ELSE 0..(Len(ALPHAVANTAGE_KEYS) - 1)
    /\ provider = None /\ symbols = <<>> /\ idx = 0
    /\ stocks_data = <<>> /\ returned = None /\ calls = <<>>
    /\ user_prefs \in PrefsGiven
    /\ tickers = <<>> /\ ticker_idx = 0 /\ charts = <<>>
    /\ NoDaily /\ NoWeb
    /\ api_key = NoKey /\ responses = <<"error">>
    /\ provided = None /\ key_order = <<>>
    /\ NoLocals
    /\ arg = None /\ ret = None

NextCharts == ChartsStart \/ GenerateChart \/ ChartsReturn

SpecCharts == InitCharts /\ [][NextCharts]_vars

----------------------------------------------------------------------------
(* Specification SpecGateway: the two functions that send requests to the   *)
(* provider, one call of calculate_trading_signal or one call of            *)
(* generate_market_charts with its calls of fetch_alphavantage_data.        *)

GatewayBars == {49, 200}

InitGateway ==
    \/ InitCharts
    \/ /\ pc = "call"
       /\ ALPHAVANTAGE_KEYS \in KeyPools \ {<<>>}
       /\ current_key_index \in 0..(Len(ALPHAVANTAGE_KEYS) - 1)
       /\ NoBatch
       /\ api_key \in {NoKey, get_api_key(current_key_index)}
       /\ responses \in ResponseSeqs
       /\ provided \in {LinearSeries(n, 100, 1, 1, 1000, 10) : n \in GatewayBars}
       /\ key_order = NewestFirst(provided)
       /\ NoLocals
       /\ arg = None /\ ret = None

NextGateway == Next \/ NextCharts

SpecGateway == InitGateway /\ [][NextGateway]_vars

----------------------------------------------------------------------------
(* The user table and the daily batch (the __main__ block of main.py) *)

\* A text is the sequence of the pieces between its commas; a piece is a
\* keyword or blank ("" or white space only).
Blank(piece) == piece \in {"", " "}

\* text.strip() is empty
EmptyText(text) == Len(text) = 1 /\ Blank(text[1])

\* [keyword.strip() for keyword in keywords_text.split(',') if keyword.strip()]
Keywords(text) == SelectSeq(text, LAMBDA piece : ~Blank(piece))

\* the preference flags of a user, as read from a form or a row
FlagNames ==
    {"include_charts", "include_sp500_chart", "include_nasdaq_chart",
     "include_bitcoin_chart", "include_top10_stocks", "include_stock_suite",
     "include_market_news"}

\* a row of the user table; the i-th unsubscribe token generated is
\* written i, and no token (or an empty one) 0
Row(id, email, text, token, flags) ==
    [id |-> id, email |-> email, text |-> text, unsubscribe_token |-> token,
     flags |-> flags]

\* read_from_database: the rows as dictionaries, or [] when the read fails
read_from_database(rows, readable) ==
    IF readable
    THEN [i \in 1..Len(rows) |->
             [email |-> rows[i].email, text |-> rows[i].text,
              token |-> rows[i].unsubscribe_token, flags |-> rows[i].flags]]
    ELSE <<>>

\* include_news_sentiment
NewsSentimentEnabled(user) ==
    IF ~user.flags["include_stock_suite"] THEN user.flags["include_market_news"] ELSE TRUE

ChartEnabled(user) ==
    \/ user.flags["include_sp500_chart"]
    \/ user.flags["include_nasdaq_chart"]
    \/ user.flags["include_bitcoin_chart"]

has_stock_features(user) ==
    \/ ChartEnabled(user)
    \/ user.flags["include_top10_stocks"]
    \/ NewsSentimentEnabled(user)

\* mutant: the keyword articles alone decide
has_content_ArticlesOnly(user, articles_by_keyword) == articles_by_keyword # {}

\* bool(articles_by_keyword) or has_stock_features
has_content(user, articles_by_keyword) ==
    articles_by_keyword # {} \/ has_stock_features(user)

\* the functions called outside any try that begin with get_api_key(), which
\* raises IndexError when no key is configured
RaisesWithoutKey == get_api_key(current_key_index) = IndexError

\* user_info = read_from_database()
ReadUsers ==
    /\ pc = "main_start"
    /\ \E readable \in BOOLEAN : user_info' = read_from_database(users, readable)
    /\ user_idx' = 0 /\ log' = <<>>
    /\ pc' = "main"
    /\ UNCHANGED <<batchVars, chartVars, users, webVars, current_key_index, api_key,
                   responses, provided, key_order, requests_sent, time_series,
                   arrayVars, indicatorVars, slopeVars, signal, result, arg, ret>>

\* one iteration of the loop over user_info, the keywords found being those
\* fetch_news returned an article for, and the mail server accepting the
\* message or not
ProcessUser ==
    /\ pc = "main" /\ user_idx < Len(user_info)
    /\ user_idx' = user_idx + 1
    /\ LET user == user_info[user_idx + 1]
           keywords == Keywords(user.text)
       IN  \E articles_by_keyword \in SUBSET {keywords[i] : i \in 1..Len(keywords)},
              accepted \in BOOLEAN :
               LET content == has_content(user, articles_by_keyword)
                   charts_generated == content /\ ChartEnabled(user)
                   top10_fetched == content /\ user.flags["include_top10_stocks"]
                   top10_raised == top10_fetched /\ RaisesWithoutKey
                   crypto_fetched == top10_fetched /\ ~top10_raised
                   news_fetched == content /\ NewsSentimentEnabled(user) /\ ~top10_raised
                   news_raised == news_fetched /\ RaisesWithoutKey
                   email_attempted == content /\ ~top10_raised /\ ~news_raised
                   email_raised == email_attempted /\ ~accepted
                   raised == top10_raised \/ news_raised \/ email_raised
               IN  /\ log' = Append(log,
                                [email |-> user.email,
                                 articles |-> articles_by_keyword,
                                 charts_generated |-> charts_generated,
                                 top10_fetched |-> top10_fetched,
                                 crypto_fetched |-> crypto_fetched,
                                 news_fetched |-> news_fetched,
                                 email_attempted |-> email_attempted,
                                 email_sent |-> email_attempted /\ accepted,
                                 raised |-> raised])
                   /\ pc' = IF raised THEN "main_raised" ELSE "main"
                   /\ \E cursor \in 0..(NumKeys - 1) :
                          /\ IF (charts_generated \/ top10_fetched) /\ ~RaisesWithoutKey
                             THEN cursor < Len(ALPHAVANTAGE_KEYS)
                             ELSE cursor = current_key_index
                          /\ current_key_index' = cursor
    /\ UNCHANGED <<batchVars, chartVars, users, webVars, user_info, api_key,
                   responses, provided, key_order, requests_sent, time_series,
                   arrayVars, indicatorVars, slopeVars, signal, result, arg, ret>>

\* the loop has been through every user
MainDone ==
    /\ pc = "main" /\ user_idx = Len(user_info)
    /\ pc' = "main_done"
    /\ UNCHANGED <<callVars, current_key_index, requests_sent, time_series,
                   arrayVars, indicatorVars, slopeVars, signal, result>>

----------------------------------------------------------------------------
(* Specification SpecDaily: one run of the daily batch over a table of up   *)
(* to MaxUsers users.  The first user has any text and any flags; the       *)
(* users after it are of a few kinds.                                       *)

MaxUsers == 3

Emails == <<"a@x", "b@x", "c@x", "d@x", "e@x">>

NoFlags == [f \in FlagNames |-> FALSE]

\* the flags the daily batch reads (include_charts is stored but not read)
FlagsRead == FlagNames \ {"include_charts"}

FlagSets == {[f \in FlagNames |-> f \in on] : on \in SUBSET FlagsRead}

Texts == {<<"">>, <<" ">>, <<"ai">>, <<"ai", " ", "oil">>}

\* the users after the first: keywords only, nothing at all, top-10 stocks
FollowingUsers ==
    {[text |-> <<"ai">>, flags |-> NoFlags],
     [text |-> <<"">>, flags |-> NoFlags],
     [text |-> <<"">>, flags |-> [NoFlags EXCEPT !["include_top10_stocks"] = TRUE]]}

InitDaily ==
    /\ pc = "main_start"
    /\ ALPHAVANTAGE_KEYS \in {<<>>, ConfiguredKeys}
    /\ current_key_index = 0
    /\ provider = None /\ symbols = <<>> /\ idx = 0
    /\ stocks_data = <<>> /\ returned = None /\ calls = <<>>
    /\ NoCharts
    /\ \E n \in 0..MaxUsers, text \in Texts, flags \in FlagSets :
       \E following \in [2..n -> FollowingUsers] :
           users = [i \in 1..n |->
                       IF i = 1 THEN Row(1, Emails[1], text, 1, flags)
                       ELSE Row(i, Emails[i], following[i].text, i,
                                following[i].flags)]
    /\ NoDaily
    /\ tokens_issued = Len(users) /\ outbox = <<>>
    /\ api_key = NoKey /\ responses = <<"error">>
    /\ provided = None /\ key_order = <<>>
    /\ NoLocals
    /\ arg = None /\ ret = None

NextDaily == ReadUsers \/ ProcessUser \/ MainDone

SpecDaily == InitDaily /\ [][NextDaily]_vars

----------------------------------------------------------------------------
(* The web application (app.py): submit, update_info, unsubscribe *)

MaxTokens == 3

\* what the forms carry
FormEmails == {"a@x", "b@x"}
FormTexts == {<<"">>, <<" ">>, <<"ai">>}
FormFlags == {NoFlags, [NoFlags EXCEPT !["include_top10_stocks"] = TRUE]}

NoToken == 0
NoEmail == ""
NoText == <<>>

\* mutant: the lookup by email finds nothing
FindByEmail_NotFound(rows, email) == None

\* User.query.filter_by(email=email).first()
FindByEmail(rows, email) ==
    IF \E i \in 1..Len(rows) : rows[i].email = email
    THEN rows[CHOOSE i \in 1..Len(rows) :
                  /\ rows[i].email = email
                  /\ \A j \in 1..(i - 1) : rows[j].email # email]
    ELSE None

\* User.query.filter_by(unsubscribe_token=token).first()
FindByToken(rows, token) ==
    IF \E i \in 1..Len(rows) : rows[i].unsubscribe_token = token
    THEN rows[CHOOSE i \in 1..Len(rows) :
                  /\ rows[i].unsubscribe_token = token
                  /\ \A j \in 1..(i - 1) : rows[j].unsubscribe_token # token]
    ELSE None

\* mutant: a token that matches nobody falls back to the email
UnsubscribeTarget_EmailFallback(rows, token, email) ==
    IF FindByToken(rows, token) # None THEN FindByToken(rows, token)
    ELSE FindByEmail(rows, email)

\* the user an unsubscribe POST is about: by token if one is given, else by email
UnsubscribeTarget(rows, token, email) ==
    IF token # NoToken THEN FindByToken(rows, token) ELSE FindByEmail(rows, email)

\* the primary key of a new row
NextId(rows) ==
    IF rows = <<>> THEN 1
    ELSE 1 + (CHOOSE m \in {rows[i].id : i \in 1..Len(rows)} :
                  \A i \in 1..Len(rows) : rows[i].id <= m)

\* the unique constraints on email and unsubscribe_token
Violates(rows, row) ==
    \E i \in 1..Len(rows) :
        rows[i].email = row.email \/ rows[i].unsubscribe_token = row.unsubscribe_token

\* db.session.delete(user); db.session.commit()
Delete(rows, user) == SelectSeq(rows, LAMBDA row : row.id # user.id)

\* what is recorded of a handled request
Handled(handler, method, email, token, text, response, mail) ==
    [handler |-> handler, method |-> method, email |-> email, token |-> token,
     text |-> text, response |-> response, mail |-> mail]

\* POST /submit
Submit ==
    /\ pc = "web" /\ tokens_issued < MaxTokens
    /\ \E email \in FormEmails, text \in FormTexts, flags \in FormFlags,
          accepted \in BOOLEAN :
           IF FindByEmail(users, email) # None
           THEN /\ outbox' = Handled("submit", "POST", email, NoToken, text, "sameuser", NoEmail)
                /\ UNCHANGED <<users, tokens_issued>>
           ELSE IF EmptyText(text)
           THEN /\ outbox' = Handled("submit", "POST", email, NoToken, text, "index", NoEmail)
                /\ UNCHANGED <<users, tokens_issued>>
           ELSE LET user == Row(NextId(users), email, text, tokens_issued + 1, flags)
                IN  /\ tokens_issued' = tokens_issued + 1
                    /\ users' = IF Violates(users, user) THEN users
                                ELSE Append(users, user)
                    /\ outbox' = Handled("submit", "POST", email, NoToken, text,
                                         IF accepted THEN "success" ELSE "index",
                                         IF accepted THEN email ELSE NoEmail)
    /\ UNCHANGED <<pc, batchVars, chartVars, dailyVars, current_key_index, api_key,
                   responses, provided, key_order, requests_sent, time_series,
                   arrayVars, indicatorVars, slopeVars, signal, result, arg, ret>>

\* GET or POST /update_info
UpdateInfo ==
    /\ pc = "web"
    /\ \E method \in {"GET", "POST"}, token \in NoToken..MaxTokens,
          new_text \in FormTexts, flags \in FormFlags :
           LET user == FindByToken(users, token)
           IN  IF token = NoToken \/ user = None
               THEN /\ outbox' = Handled("update_info", method, NoEmail, token, new_text,
                                         "index", NoEmail)
                    /\ UNCHANGED users
               ELSE IF method = "POST"
               THEN /\ users' = [i \in 1..Len(users) |->
                                    IF users[i].id = user.id
                                    THEN [users[i] EXCEPT !.text = new_text,
                                                          !.flags = flags]
                                    ELSE users[i]]
                    /\ outbox' = Handled("update_info", method, NoEmail, token, new_text,
                                         "success", NoEmail)
               ELSE /\ outbox' = Handled("update_info", method, NoEmail, token, new_text,
                                         "change", NoEmail)
                    /\ UNCHANGED users
    /\ UNCHANGED <<pc, batchVars, chartVars, dailyVars, tokens_issued,
                   current_key_index, api_key, responses, provided, key_order,
                   requests_sent, time_series, arrayVars, indicatorVars, slopeVars,
                   signal, result, arg, ret>>

\* GET or POST /unsubscribe
Unsubscribe ==
    /\ pc = "web"
    /\ \E method \in {"GET", "POST"}, token \in NoToken..MaxTokens,
          email \in FormEmails \cup {NoEmail} :
           IF method = "POST"
           THEN LET user == UnsubscribeTarget(users, token, email)
                IN  IF user # None
                    THEN /\ users' = Delete(users, user)
                         /\ outbox' = Handled("unsubscribe", method, email, token, NoText,
                                              "success", NoEmail)
                    ELSE /\ outbox' = Handled("unsubscribe", method, email, token, NoText,
                                              "index", NoEmail)
                         /\ UNCHANGED users
           ELSE /\ outbox' = Handled("unsubscribe", method, email, token, NoText,
                                     IF token # NoToken /\ FindByToken(users, token) = None
                                     THEN "index" ELSE "unsub",
                                     NoEmail)
                /\ UNCHANGED users
    /\ UNCHANGED <<pc, batchVars, chartVars, dailyVars, tokens_issued,
                   current_key_index, api_key, responses, provided, key_order,
                   requests_sent, time_series, arrayVars, indicatorVars, slopeVars,
                   signal, result, arg, ret>>

----------------------------------------------------------------------------
(* Specification SpecWeb: any sequence of requests to the web application,  *)
(* starting from the empty table, with up to MaxTokens users ever created.  *)

NoRequest == Handled("none", "GET", NoEmail, NoToken, NoText, "index", NoEmail)

InitWeb ==
    /\ pc = "web"
    /\ ALPHAVANTAGE_KEYS = ConfiguredKeys /\ current_key_index = 0
    /\ provider = None /\ symbols = <<>> /\ idx = 0
    /\ stocks_data = <<>> /\ returned = None /\ calls = <<>>
    /\ NoCharts /\ NoDaily
    /\ users = <<>> /\ tokens_issued = 0 /\ outbox = NoRequest
    /\ api_key = NoKey /\ responses = <<"error">>
    /\ provided = None /\ key_order = <<>>
    /\ NoLocals
    /\ arg = None /\ ret = None

NextWeb == Submit \/ UpdateInfo \/ Unsubscribe

SpecWeb == InitWeb /\ [][NextWeb]_vars

----------------------------------------------------------------------------
(* calculate_composite_sentiment and fetch_market_news_sentiment.           *)
(* Sentiment and relevance scores are given in hundredths (15 is 0.15).     *)

\* Python floats are IEEE 754 doubles: a sign, and a magnitude man * 2^exp
\* whose mantissa man has at most MantissaBits bits. A natural number of
\* that size is written as its digits in base LimbBase, from the lowest up.
MantissaBits == 53
GuardBits == 60
LimbBits == 15
LimbBase == 2^LimbBits

LTrim(a) ==
    LET set == {i \in 1..Len(a) : a[i] # 0}
    IN  IF set = {} THEN <<>>
        ELSE SubSeq(a, 1, CHOOSE i \in set : \A j \in set : j <= i)

\* the number of bits of a
LBits(a) ==
    IF a = <<>> THEN 0
    ELSE (Len(a) - 1) * LimbBits
             + CHOOSE k \in 1..LimbBits : 2^k > a[Len(a)] /\ 2^(k - 1) <= a[Len(a)]

RECURSIVE LNat(_)
LNat(a) == IF a = <<>> THEN 0 ELSE Head(a) + LimbBase * LNat(Tail(a))

RECURSIVE NatL(_)
NatL(n) == IF n = 0 THEN <<>> ELSE <<n % LimbBase>> \o NatL(n \div LimbBase)

RECURSIVE LAdd(_, _, _)
LAdd(a, b, carry) ==
    IF a = <<>> /\ b = <<>> THEN NatL(carry)
    ELSE LET t == (IF a = <<>> THEN 0 ELSE Head(a)) + (IF b = <<>> THEN 0 ELSE Head(b)) + carry
         IN  <<t % LimbBase>> \o LAdd(IF a = <<>> THEN a ELSE Tail(a),
                                      IF b = <<>> THEN b ELSE Tail(b), t \div LimbBase)

\* a - b for a >= b
RECURSIVE LSub(_, _, _)
LSub(a, b, borrow) ==
    IF a = <<>> THEN <<>>
    ELSE LET t == Head(a) - (IF b = <<>> THEN 0 ELSE Head(b)) - borrow
         IN  <<t % LimbBase>> \o LSub(Tail(a), IF b = <<>> THEN b ELSE Tail(b),
                                      IF t < 0 THEN 1 ELSE 0)

\* -1, 0 or 1 as a is below, equal to or above b
LCmp(a, b) ==
    IF Len(a) # Len(b) THEN (IF Len(a) < Len(b) THEN -1 ELSE 1)
    ELSE LET differ == {i \in 1..Len(a) : a[i] # b[i]}
             top == CHOOSE i \in differ : \A j \in differ : j <= i
         IN  IF differ = {} THEN 0 ELSE IF a[top] > b[top] THEN 1 ELSE -1

\* a * k for 0 < k <= LimbBase
RECURSIVE LTimes(_, _, _)
LTimes(a, k, carry) ==
    IF a = <<>> THEN NatL(carry)
    ELSE LET t == Head(a) * k + carry
         IN  <<t % LimbBase>> \o LTimes(Tail(a), k, t \div LimbBase)

\* the quotient and the remainder of the digits from the i-th down by k
RECURSIVE LDivide(_, _, _, _, _)
LDivide(a, k, i, q, r) ==
    IF i = 0 THEN [q |-> LTrim(q), r |-> r]
    ELSE LET cur == r * LimbBase + a[i]
         IN  LDivide(a, k, i - 1, <<cur \div k>> \o q, cur % k)

ShiftLeft(a, n) ==
    IF a = <<>> THEN a
    ELSE [i \in 1..(n \div LimbBits) |-> 0] \o LTimes(a, 2^(n % LimbBits), 0)

\* F applied to the value of x, which is worked out once
Strict(F(_), x) == CHOOSE r \in {F(v) : v \in {x}} : TRUE
Strict2(F(_, _), x, y) == CHOOSE r \in {F(v, w) : v \in {x}, w \in {y}} : TRUE

\* the quotient and the remainder of a by k
LQuotient(a, k) == Strict(LAMBDA v : LDivide(v, k, Len(v), <<>>, 0), a)

\* a / 2^n rounded to the nearest integer, a tie to the even one; inexact
\* says that a stands for a value slightly above it
RoundShift(a, n, inexact) ==
    IF n <= 0 THEN a
    ELSE LET whole == (n - 1) \div LimbBits
             high == IF whole >= Len(a) THEN <<>> ELSE SubSeq(a, whole + 1, Len(a))
             low == inexact \/ \E i \in 1..whole : i <= Len(a) /\ a[i] # 0
         IN  Strict(LAMBDA d :
                 Strict(LAMBDA h :
                     IF h.r = 1 /\ (low \/ d.r # 0 \/ (h.q # <<>> /\ h.q[1] % 2 = 1))
                     THEN LAdd(h.q, <<1>>, 0) ELSE h.q,
                     LQuotient(d.q, 2)),
                 LQuotient(high, 2^((n - 1) % LimbBits)))

FZero == [neg |-> FALSE, man |-> <<>>, exp |-> 0]

\* the double nearest to man * 2^exp (slightly more if inexact)
Double(neg, man, exp, inexact) ==
    Strict(LAMBDA m :
        LET drop == IF LBits(m) > MantissaBits THEN LBits(m) - MantissaBits ELSE 0
        IN  Strict(LAMBDA rounded :
                IF rounded = <<>> THEN FZero
                ELSE [neg |-> neg, man |-> rounded, exp |-> exp + drop],
                RoundShift(m, drop, inexact)),
        man)

FInt(n) == Double(n < 0, NatL(IF n < 0 THEN -n ELSE n), 0, FALSE)

\* -1, 0 or 1 as x is below, equal to or above y
FCmp(x, y) ==
    Strict2(LAMBDA v, w :
        LET e == IF v.exp < w.exp THEN v.exp ELSE w.exp
            abs == Strict2(LCmp, ShiftLeft(v.man, v.exp - e), ShiftLeft(w.man, w.exp - e))
        IN  IF v.man = <<>> /\ w.man = <<>> THEN 0
            ELSE IF v.man = <<>> THEN (IF w.neg THEN 1 ELSE -1)
            ELSE IF w.man = <<>> THEN (IF v.neg THEN -1 ELSE 1)
            ELSE IF v.neg # w.neg THEN (IF v.neg THEN -1 ELSE 1)
            ELSE IF v.neg THEN -abs ELSE abs,
        x, y)

FLe(x, y) == FCmp(x, y) <= 0
FLt(x, y) == FCmp(x, y) < 0
FGt(x, y) == FCmp(x, y) > 0

\* x + y
FAdd(x, y) ==
    Strict2(LAMBDA v, w :
        LET e == IF v.exp < w.exp THEN v.exp ELSE w.exp
        IN  IF v.man = <<>> THEN w
            ELSE IF w.man = <<>> THEN v
            ELSE Strict2(LAMBDA a, b :
                     IF v.neg = w.neg THEN Double(v.neg, LAdd(a, b, 0), e, FALSE)
                     ELSE IF LCmp(a, b) = 0 THEN FZero
                     ELSE IF LCmp(a, b) > 0
                          THEN Double(v.neg, LTrim(LSub(a, b, 0)), e, FALSE)
                     ELSE Double(w.neg, LTrim(LSub(b, a, 0)), e, FALSE),
                     ShiftLeft(v.man, v.exp - e), ShiftLeft(w.man, w.exp - e)),
        x, y)

\* x / k for an integer k > 0
FDivInt(x, k) ==
    Strict(LAMBDA v :
        Strict(LAMBDA d : Double(v.neg, d.q, v.exp - GuardBits, d.r # 0),
               LQuotient(ShiftLeft(v.man, GuardBits), k)),
        x)

\* sum(s): the items added one after the other
RECURSIVE FSumTo(_, _)
FSumTo(s, k) == IF k = 0 THEN FZero ELSE FAdd(FSumTo(s, k - 1), s[k])

FMean(s) == Strict(LAMBDA v : FDivInt(FSumTo(v, Len(v)), Len(v)), s)

\* the doubles of the decimal numbers -1.00, -0.99, ..., 1.00
Decimals == [i \in -100..100 |-> FDivInt(FInt(i), 100)]

\* float() of a score written in hundredths, as in "0.35"
Hundredths(i) == Decimals[i]

\* round(x, 4), as the rational number of ten-thousandths it shows
Round4(x) ==
    Strict(LAMBDA v :
        Strict(LAMBDA scaled :
            LET n == LNat(IF v.exp >= 0 THEN ShiftLeft(scaled, v.exp)
                          ELSE RoundShift(scaled, -v.exp, FALSE))
            IN  Rat(IF v.neg THEN -n ELSE n, 10000),
            LTimes(v.man, 10000, 0)),
        x)

\* if relevance > 0.1
Relevant(relevance) == FGt(relevance, Hundredths(10))

\* the entry of item['ticker_sentiment'] for the ticker, the first if there
\* are several; None if there is none
TickerEntry(item, target_ticker) ==
    LET ts == item.ticker_sentiment
        hits == {i \in 1..Len(ts) : ts[i].ticker = target_ticker}
    IN  IF hits = {} THEN None
        ELSE ts[CHOOSE i \in hits : \A j \in hits : i <= j]

\* the sentiment score and the relevance an item is taken with, None when
\* the item is skipped for not mentioning the target ticker
Scored(item, target_ticker) ==
    IF target_ticker # NoKey
    THEN LET entry == TickerEntry(item, target_ticker)
         IN  IF entry = None THEN None
             ELSE [sentiment_score |-> Hundredths(entry.ticker_sentiment_score),
                   relevance |-> Hundredths(entry.relevance_score)]
    ELSE [sentiment_score |-> Hundredths(item.overall_sentiment_score),
          relevance |-> IF item.topics # <<>>
                        THEN FMean([i \in 1..Len(item.topics) |->
                                       Hundredths(item.topics[i])])
                        ELSE Hundredths(50)]

\* the label of a composite score on Alpha Vantage's scale
SentimentLabel(composite_score) ==
    IF FLe(composite_score, Hundredths(-35)) THEN "Bearish"
    ELSE IF FLe(composite_score, Hundredths(-15)) THEN "Somewhat-Bearish"
    ELSE IF FLt(composite_score, Hundredths(15)) THEN "Neutral"
    ELSE IF FLt(composite_score, Hundredths(35)) THEN "Somewhat-Bullish"
    ELSE "Bullish"

NoSentiment ==
    [composite_score |-> RInt(0), composite_label |-> "Neutral",
     article_count |-> 0, avg_relevance |-> RInt(0)]

\* target_ticker is NoKey when none is given
calculate_composite_sentiment(news_items, target_ticker) ==
    Strict(LAMBDA taken :
        LET sentiment_scores == [i \in 1..Len(taken) |-> taken[i].sentiment_score]
            relevances == [i \in 1..Len(taken) |-> taken[i].relevance]
        IN  IF taken = <<>> THEN NoSentiment
            ELSE Strict(LAMBDA composite_score :
                     [composite_score |-> Round4(composite_score),
                      composite_label |-> SentimentLabel(composite_score),
                      article_count |-> Len(sentiment_scores),
                      avg_relevance |-> Round4(FMean(relevances))],
                     FMean(sentiment_scores)),
        SelectSeq([i \in 1..Len(news_items) |-> Scored(news_items[i], target_ticker)],
                  LAMBDA sc : IF sc = None THEN FALSE ELSE Relevant(sc.relevance)))

\* mutant: every item of a feed is appended
AddFeed_NoSeenUrls(all_news_items, feed) == all_news_items \o feed

\* the items of a feed appended to all_news_items, those with a URL seen
\* before (seen_urls) left out
RECURSIVE AddFeed(_, _)
AddFeed(all_news_items, feed) ==
    IF feed = <<>> THEN all_news_items
    ELSE LET item == Head(feed)
             seen == \E i \in 1..Len(all_news_items) : all_news_items[i].url = item.url
         IN  AddFeed(IF seen THEN all_news_items ELSE Append(all_news_items, item),
                     Tail(feed))

\* the requests for the tickers and then the topics, from the i-th on, each
\* answered by answers[i]: the items collected, the key cursor, and whether
\* an exception ended the loop
RECURSIVE FetchQueries(_, _, _, _)
FetchQueries(answers, i, all_news_items, cursor) ==
    IF i > Len(answers)
    THEN [all_news_items |-> all_news_items, cursor |-> cursor, raised |-> FALSE]
    ELSE LET answer == answers[i]
             limited == answer.first = "limited"
             after == IF limited THEN switch_api_key(cursor) ELSE cursor
             last == IF limited THEN answer.retry ELSE answer.first
         IN  IF last = "exception"
             THEN [all_news_items |-> all_news_items, cursor |-> after, raised |-> TRUE]
             ELSE FetchQueries(answers, i + 1,
                               IF last = "feed" THEN AddFeed(all_news_items, answer.feed)
                               ELSE all_news_items,
                               after)

\* the returned dictionary, None (also standing for []) when nothing was
\* retrieved or an exception was caught
NewsResult(all_news_items, news_tickers, limit) ==
    Strict(LAMBDA items :
        IF items = <<>> THEN None
        ELSE [articles |-> FirstK(items, limit),
              market_sentiment |-> calculate_composite_sentiment(items, NoKey),
              ticker_sentiments |->
                  LET listed == {news_tickers[i] : i \in 1..Len(news_tickers)}
                      counted == {t \in listed :
                          calculate_composite_sentiment(items, t).article_count > 0}
                  IN  [t \in counted |-> calculate_composite_sentiment(items, t)]],
        all_news_items)

\* fetch_market_news_sentiment(topics, tickers, limit) with the cursor at
\* `cursor`, its requests answered by answers: the returned value and the
\* cursor afterwards
fetch_market_news_sentiment(topics, news_tickers, limit, answers, cursor) ==
    IF news_tickers = <<>> /\ topics = <<>>
    THEN \* general market news: one request, the first `limit` items, no seen_urls
         LET answer == answers[1]
             limited == answer.first = "limited"
             after == IF limited THEN switch_api_key(cursor) ELSE cursor
             last == IF limited THEN answer.retry ELSE answer.first
         IN  [ret |-> IF last = "feed"
                      THEN NewsResult(FirstK(answer.feed, limit), news_tickers, limit)
                      ELSE None,
              cursor |-> after]
    ELSE Strict(LAMBDA fetched :
                    [ret |-> IF fetched.raised THEN None
                             ELSE NewsResult(fetched.all_news_items, news_tickers, limit),
                     cursor |-> fetched.cursor],
                FetchQueries(answers, 1, <<>>, cursor))

----------------------------------------------------------------------------
(* Specification SpecNews: one call of calculate_composite_sentiment on up  *)
(* to MaxItems items, or one call of fetch_market_news_sentiment for at    *)
(* most one ticker and one topic, with feeds of up to MaxFeed items.        *)

MaxItems == 3
MaxFeed == 2
MaxLimit == 2

SentimentScores == {-35, -15, 15, 35}

\* what an item says of topics and tickers: relevant topics and no ticker;
\* topics of relevance 0.1 and a relevant entry for AAPL; no topic and an
\* entry for AAPL of relevance 0.1 after one for MSFT; topics of mean
\* relevance 0.15 and two entries for AAPL
Profiles(score) ==
    {[topics |-> <<50>>, ticker_sentiment |-> <<>>],
     [topics |-> <<10>>,
      ticker_sentiment |-> <<[ticker |-> "AAPL", ticker_sentiment_score |-> -score,
                              relevance_score |-> 50]>>],
     [topics |-> <<>>,
      ticker_sentiment |-> <<[ticker |-> "MSFT", ticker_sentiment_score |-> score,
                              relevance_score |-> 50],
                             [ticker |-> "AAPL", ticker_sentiment_score |-> score,
                              relevance_score |-> 10]>>],
     [topics |-> <<0, 30>>,
      ticker_sentiment |-> <<[ticker |-> "AAPL", ticker_sentiment_score |-> 15,
                              relevance_score |-> 11],
                             [ticker |-> "AAPL", ticker_sentiment_score |-> score,
                              relevance_score |-> 50]>>]}

NewsItem(url, score, profile) ==
    [url |-> url, overall_sentiment_score |-> score,
     ticker_sentiment |-> profile.ticker_sentiment, topics |-> profile.topics]

NewsItems ==
    {NewsItem("u", score, CHOOSE p \in Profiles(score) : p.ticker_sentiment = <<>>) :
         score \in SentimentScores}
        \cup UNION {{NewsItem("u", score, profile) :
                         profile \in {p \in Profiles(score) : p.ticker_sentiment # <<>>}} :
                    score \in {15, 35}}

SeqsOf(S, n) == UNION {[1..k -> S] : k \in 0..n}

\* the article behind a URL
Article(url) ==
    CASE url = "u1" -> NewsItem(url, 35, CHOOSE p \in Profiles(35) : p.topics = <<50>>)
      [] url = "u2" -> NewsItem(url, -35, CHOOSE p \in Profiles(-35) : p.topics = <<10>>)
      [] url = "u3" -> NewsItem(url, 15, CHOOSE p \in Profiles(15) : p.topics = <<0, 30>>)

Urls == {"u1", "u2", "u3"}

\* the feeds of one response: different articles in any order, or the same
\* article twice
Feeds ==
    {[i \in 1..Len(urls) |-> Article(urls[i])] :
         urls \in {u \in SeqsOf(Urls, MaxFeed) :
                       \/ \A i, j \in 1..Len(u) : i # j => u[i] # u[j]
                       \/ u = <<"u1", "u1">>}}

\* the answers to the requests of one ticker or topic
Answers ==
    {[first |-> "feed", retry |-> "feed", feed |-> feed] : feed \in Feeds}
        \cup {[first |-> "limited", retry |-> "feed", feed |-> feed] : feed \in Feeds}
        \cup {[first |-> first, retry |-> retry, feed |-> <<>>] :
                  first \in {"limited"}, retry \in {"limited", "error", "exception"}}
        \cup {[first |-> first, retry |-> first, feed |-> <<>>] :
                  first \in {"error", "exception"}}

TickerLists == {<<>>, <<"AAPL">>}
TopicLists == {<<>>, <<"technology">>}

InitNews ==
    /\ pc = "lib_call"
    /\ \/ \E news_items \in SeqsOf(NewsItems, MaxItems), target_ticker \in {NoKey, "AAPL"} :
              /\ arg = [fn |-> "calculate_composite_sentiment",
                        news_items |-> news_items, target_ticker |-> target_ticker]
              /\ ALPHAVANTAGE_KEYS = ConfiguredKeys
       \/ \E news_tickers \in TickerLists, topics \in TopicLists, limit \in 1..MaxLimit :
          \E answers \in [1..(IF Len(news_tickers) + Len(topics) = 0 THEN 1
                              ELSE Len(news_tickers) + Len(topics)) -> Answers] :
              /\ arg = [fn |-> "fetch_market_news_sentiment", topics |-> topics,
                        tickers |-> news_tickers, limit |-> limit, answers |-> answers]
              \* without a key no request is sent and the answers play no part
              /\ ALPHAVANTAGE_KEYS \in
                     IF \A i \in 1..Len(answers) : answers[i].first = "error"
                     THEN {<<>>, ConfiguredKeys} ELSE {ConfiguredKeys}
    /\ current_key_index = 0
    /\ NoBatch
    /\ api_key = NoKey /\ responses = <<"error">>
    /\ provided = None /\ key_order = <<>>
    /\ NoLocals
    /\ ret = None

CallSentiment ==
    /\ pc = "lib_call" /\ arg.fn = "calculate_composite_sentiment"
    /\ ret' = calculate_composite_sentiment(arg.news_items, arg.target_ticker)
    /\ pc' = "lib_done"
    /\ UNCHANGED libFrame

\* `if not get_api_key()` comes before the try: IndexError when no key is
\* configured
CallNews ==
    /\ pc = "lib_call" /\ arg.fn = "fetch_market_news_sentiment"
    /\ IF get_api_key(current_key_index) = IndexError
       THEN /\ pc' = "lib_raised"
            /\ UNCHANGED <<ret, current_key_index>>
       ELSE \E fetched \in {fetch_market_news_sentiment(arg.topics, arg.tickers, arg.limit,
                                                        arg.answers, current_key_index)} :
                /\ ret' = fetched.ret
                /\ current_key_index' = fetched.cursor
                /\ pc' = "lib_done"
    /\ UNCHANGED <<batchVars, appVars, api_key, responses, provided, key_order,
                   requests_sent, time_series, arrayVars, indicatorVars, slopeVars,
                   signal, result, arg>>

NextNews == CallSentiment \/ CallNews

SpecNews == InitNews /\ [][NextNews]_vars

----------------------------------------------------------------------------
(* Claims about the rule cascade (SpecCascade) *)

Classified == pc = "done" /\ result # None

\* C1 as the claim words it: the conditions of the ordered rules
ClaimedRules(price, s50, s200, a, r, trend) ==
    << /\ RLe(s50, price) /\ RLt(s200, s50)
       /\ a # None /\ RLe(RInt(25), a) /\ RLt(r, RInt(45)) /\ trend = "rising",
       /\ RLt(price, s200) /\ RLt(s50, s200)
       /\ a # None /\ RLe(RInt(25), a) /\ RLt(r, RInt(45)) /\ trend = "falling",
       /\ RLe(s200, price)
       /\ a # None /\ RLe(RInt(20), a) /\ RLt(r, RInt(55)),
       /\ RLt(price, s50) /\ RLt(s50, s200)
       /\ a # None /\ RLe(RInt(20), a) /\ RLt(RInt(45), r),
       TRUE >>

ClaimedLabels == <<"STRONG BUY", "STRONG SELL", "BUY", "SELL", "HOLD">>

FirstMatch(rules) == CHOOSE i \in 1..Len(rules) : rules[i] /\ \A j \in 1..(i - 1) : ~rules[j]

\* C1: whenever sma50, sma200 and rsi are defined, the returned signal is the
\* label of the first rule of the ordered cascade STRONG BUY, STRONG SELL, BUY,
\* SELL, HOLD whose condition holds, and it is one of the five signals.
C1_FirstMatchingRule ==
    Classified =>
        /\ signal = ClaimedLabels[FirstMatch(
               ClaimedRules(current_price, sma50, sma200, adx, rsi, obv_trend))]
        /\ result.signal = signal
        /\ signal \in Signals

\* C1 witness: a classified input that matches BUY and not the two STRONG rules
C1_Witness ==
    /\ Classified /\ signal = "BUY"
    /\ RGe(current_price, sma50) /\ RGt(sma50, sma200)
    /\ obv_trend = "rising" /\ ~RLt(rsi, RInt(45))

\* the rules whose conditions hold in the current state
MatchingRules ==
    {k \in {"STRONG BUY", "STRONG SELL", "BUY", "SELL"} :
        CASE k = "STRONG BUY"  -> StrongBuyRule(current_price, sma50, sma200, adx, rsi, obv_trend)
          [] k = "STRONG SELL" -> StrongSellRule(current_price, sma50, sma200, adx, rsi, obv_trend)
          [] k = "BUY"         -> BuyRule(current_price, sma50, sma200, adx, rsi, obv_trend)
          [] k = "SELL"        -> SellRule(current_price, sma50, sma200, adx, rsi, obv_trend)}

\* C2 as stated: no input satisfies the conditions of more than one of the four
\* non-default rules.
C2_MutuallyExclusive == Classified => Cardinality(MatchingRules) <= 1

\* C2 amended: the only two rules that can hold together are STRONG BUY and BUY
\* (every input that satisfies STRONG BUY satisfies BUY as well); every other
\* pair of the four rules is mutually exclusive.
C2_ExclusiveExceptStrongBuyAndBuy ==
    Classified =>
        /\ Cardinality(MatchingRules) > 1 => MatchingRules = {"STRONG BUY", "BUY"}
        /\ "STRONG BUY" \in MatchingRules => "BUY" \in MatchingRules

\* C2 witness: an input on which STRONG BUY and BUY both hold, classified STRONG BUY
C2_Witness ==
    Classified /\ MatchingRules = {"STRONG BUY", "BUY"} /\ signal = "STRONG BUY"

\* C5: with adx undefined (and sma50, sma200, rsi defined) the signal is HOLD
\* whatever the price, rsi and OBV trend.
C5_UndefinedAdxHolds == (Classified /\ adx = None) => signal = "HOLD"

\* C5 witness: adx undefined on an input that meets every other condition of BUY
C5_Witness ==
    /\ Classified /\ adx = None /\ signal = "HOLD"
    /\ RGe(current_price, sma200) /\ RLt(rsi, RInt(RsiBuyMax))

----------------------------------------------------------------------------
(* Claims about one call of calculate_trading_signal (Spec) *)

\* the call has returned after the provider delivered a time series
ReturnedOnSeries == pc = "done" /\ Delivered(api_key, responses)

\* the number of bars the provider delivered
BarsDelivered == Cardinality(DOMAIN provided)

\* the number of bars the call keeps
BarsKept == IF BarsDelivered >= 200 THEN 200 ELSE BarsDelivered

\* the delivered closes, oldest first (the dates of a LinearSeries are 1..n)
ProvidedCloses == [i \in 1..BarsDelivered |-> provided[i].close]

\* C3: with fewer than 50 bars, or too few bars for rsi (fewer than period + 1),
\* sma_short or sma_long (fewer than their period) to be defined, the call
\* returns None: no signal, and in particular no default HOLD.
C3_NoSignalWhenUndefined ==
    ReturnedOnSeries =>
        ((\/ BarsDelivered < 50
          \/ BarsKept < 21 + 1 \/ BarsKept < 50 \/ BarsKept < 200
          \/ rsi = None \/ sma50 = None \/ sma200 = None)
            => result = None /\ signal \notin Signals)

\* C3 witness: at least 50 bars, sma50 and rsi computed, sma200 undefined
C3_Witness ==
    /\ ReturnedOnSeries /\ BarsDelivered >= 50
    /\ sma50 # None /\ rsi # None /\ sma200 = None
    /\ result = None

\* C4 as stated: for 50 to 199 bars the call returns the fast indicators and
\* marks only the 200-bar ones absent.
C4_GracefulDegradation ==
    (ReturnedOnSeries /\ BarsDelivered >= 50 /\ BarsDelivered <= 199) =>
        /\ result # None
        /\ result.sma50 # None /\ result.rsi # None
        /\ result.obv_trend \in {"rising", "falling", "flat"}
        /\ result.sma200 = None

\* the 210-bar series of C6: closes, highs and lows rising by 1 a day from
\* 100, the volume increasing
IsRamp210 ==
    provided \in {LinearSeries(210, 100, 1, sp, 1000, 10) : sp \in Spreads}

\* what C6 says of the indicators: price > SMA50 > SMA200, ADX >= 25, OBV rising
RampIndicators ==
    /\ RGt(current_price, sma50) /\ RGt(sma50, sma200)
    /\ adx # None /\ RGe(adx, RInt(25))
    /\ obv_trend = "rising"

\* C6 as stated: on that series the indicators are as above and the signal is BUY.
C6_RampIsBuy ==
    (ReturnedOnSeries /\ IsRamp210) => RampIndicators /\ signal = "BUY"

\* C6 amended: on that series the indicators are as above, RSI is 100, and the
\* signal is HOLD (neither BUY, whose rule needs RSI < 55, nor STRONG BUY).
C6_RampIsHold ==
    (ReturnedOnSeries /\ IsRamp210) =>
        /\ RampIndicators
        /\ rsi = RInt(100)
        /\ result # None /\ signal = "HOLD"

\* C6 witness: the call on the ramp has returned a signal
C6_Witness == ReturnedOnSeries /\ IsRamp210 /\ result # None /\ signal = "HOLD"

\* the series of C7: 60 bars, closes = highs = lows = 100, volumes = 1000
IsFlat60 == provided = LinearSeries(60, 100, 0, 0, 1000, 0)

\* what C7 says of the indicators: RSI = 100, a constant OBV, an undefined or
\* low ADX, SMA50 = 100
FlatIndicators ==
    /\ rsi = RInt(100)
    /\ obv # None /\ \A i \in 1..Len(obv) : obv[i] = obv[1]
    /\ (adx = None \/ RLt(adx, RInt(20)))
    /\ sma50 = RInt(100)

\* C7 as stated: on that series the indicators are as above and the signal is HOLD.
C7_FlatIsHold ==
    (ReturnedOnSeries /\ IsFlat60) => FlatIndicators /\ signal = "HOLD"

\* C7 amended: on that series the indicators are as above, SMA200 is undefined,
\* and the call returns None: no signal, not HOLD.
C7_FlatIsNoSignal ==
    (ReturnedOnSeries /\ IsFlat60) =>
        /\ FlatIndicators
        /\ sma200 = None
        /\ result = None /\ signal \notin Signals

\* C7 witness: the call on the flat series has computed the indicators and returned
C7_Witness == ReturnedOnSeries /\ IsFlat60 /\ rsi = RInt(100) /\ result = None

\* C10 as stated: when at least 205 bars were delivered, the long slope is the
\* mean of the last 200 closes minus the mean of the 200 closes ending 5 bars
\* earlier, and the short slope likewise from 50-bar windows.
C10_SlopesFromDeliveredBars ==
    (ReturnedOnSeries /\ result # None /\ BarsDelivered >= 205) =>
        LET n == BarsDelivered
            all == ProvidedCloses
        IN  /\ slope_200 = RSub(Mean(SubSeq(all, n - 199, n)),
                                Mean(SubSeq(all, n - 204, n - 5)))
            /\ slope_50 = RSub(Mean(SubSeq(all, n - 49, n)),
                               Mean(SubSeq(all, n - 54, n - 5)))

----------------------------------------------------------------------------
(* Claims about the indicator functions (SpecLib) *)

\* check_obv_trend as C8 words it: the last lookback + 1 values, lookback
\* comparisons, 60% of them
ClaimedObvTrend(o, lookback) ==
    IF Len(o) < lookback + 1 THEN "flat"
    ELSE LET recent == SubSeq(o, Len(o) - lookback, Len(o))
             ups   == Cardinality({i \in 2..Len(recent) : recent[i] > recent[i - 1]})
             downs == Cardinality({i \in 2..Len(recent) : recent[i] < recent[i - 1]})
         IN  IF ups * 10 >= lookback * 6 THEN "rising"
             ELSE IF downs * 10 >= lookback * 6 THEN "falling"
             ELSE "flat"

\* C8 as stated: check_obv_trend classifies the last lookback + 1 OBV values by
\* their lookback day-over-day comparisons.
C8_ObvTrendOverLookbackComparisons ==
    (pc = "lib_done" /\ arg.fn = "check_obv_trend") =>
        ret = ClaimedObvTrend(arg.obv, arg.lookback)

\* no day of the smoothing loop of calculate_adx was skipped
NoDaySkipped(hs, ls, cs, period) ==
    Len(DxValues(hs, ls, cs, period)) = Len(cs) - 1 - period

\* C9 as stated: calculate_adx is undefined below 2 * period closes, and defined
\* from 2 * period closes on when no day is skipped for a zero denominator.
C9_AdxDefinedFromTwicePeriod ==
    (pc = "lib_done" /\ arg.fn = "calculate_adx") =>
        LET n == Len(arg.closes)
        IN  /\ n < 2 * arg.period => ret = None
            /\ (/\ n >= 2 * arg.period
                /\ NoDaySkipped(arg.highs, arg.lows, arg.closes, arg.period))
                 => ret # None

----------------------------------------------------------------------------
(* Claims about calculate_rsi, calculate_sma, calculate_obv and            *)
(* calculate_adx on a ramp (SpecSeries)                                     *)

Returned(fn) == pc = "lib_done" /\ arg.fn = fn

\* C11: with at least period + 1 prices calculate_rsi returns a value in
\* [0, 100]; with fewer it returns None.
C11_RsiInRangeOrUndefined ==
    Returned("calculate_rsi") =>
        IF Len(arg.prices) >= arg.period + 1
        THEN ret # None /\ RLe(RInt(0), ret) /\ RLe(ret, RInt(100))
        ELSE ret = None

\* C11 witness: an RSI strictly between 0 and 100 after a smoothing step
C11_Witness ==
    /\ Returned("calculate_rsi") /\ Len(arg.prices) > arg.period + 1
    /\ ret # None /\ RLt(RInt(0), ret) /\ RLt(ret, RInt(100))

\* the average C12 describes: the simple mean of xs[1..period], then
\* (avg * (period - 1) + xs[k]) / period for every later k
RECURSIVE ClaimedAverage(_, _, _)
ClaimedAverage(xs, period, k) ==
    IF k <= period THEN Rat(SumTo(xs, period), period)
    ELSE LET before == ClaimedAverage(xs, period, k - 1)
         IN  Rat(before[1] * (period - 1) + xs[k] * before[2], before[2] * period)

ClaimedRsi(prices, period) ==
    LET gain(i) == IF prices[i + 1] > prices[i] THEN prices[i + 1] - prices[i] ELSE 0
        loss(i) == IF prices[i + 1] < prices[i] THEN prices[i] - prices[i + 1] ELSE 0
        gains  == [i \in 1..(Len(prices) - 1) |-> gain(i)]
        losses == [i \in 1..(Len(prices) - 1) |-> loss(i)]
        avg_gain == ClaimedAverage(gains, period, Len(gains))
        avg_loss == ClaimedAverage(losses, period, Len(losses))
    IN  IF avg_loss[1] = 0 THEN RInt(100)
        ELSE \* 100 - 100 / (1 + avg_gain / avg_loss)
             RSub(RInt(100),
                  RDiv(RInt(100), RAdd(RInt(1), RDiv(avg_gain, avg_loss))))

NoDecrease(prices) == \A i \in 1..(Len(prices) - 1) : prices[i + 1] >= prices[i]

\* C12: a defined RSI is 100 when the Wilder-smoothed average loss is 0, in
\* particular on every series without a day-over-day decrease, and otherwise
\* 100 - 100 / (1 + avg_gain / avg_loss), both averages seeded with the mean of
\* the first period gains / losses and smoothed over every later delta.
C12_RsiIsWilderFormula ==
    (Returned("calculate_rsi") /\ ret # None) =>
        /\ ret = ClaimedRsi(arg.prices, arg.period)
        /\ NoDecrease(arg.prices) => ret = RInt(100)

\* C12 witness: a series whose seed window has a loss and whose later deltas
\* are smoothed in
C12_Witness ==
    /\ Returned("calculate_rsi") /\ arg.period >= 2
    /\ Len(arg.prices) >= arg.period + 3
    /\ ~NoDecrease(arg.prices)
    /\ ret # None /\ ret # RInt(100) /\ ret # RInt(0)

\* C13: calculate_sma is None iff there are fewer than period values, and
\* otherwise the arithmetic mean of the last period values.
C13_SmaIsTrailingMean ==
    Returned("calculate_sma") =>
        LET n == Len(arg.data)
            window == {i \in 1..n : i > n - arg.period}
        IN  /\ ret = None <=> n < arg.period
            /\ n >= arg.period =>
                   /\ Cardinality(window) = arg.period
                   /\ ret = Rat(SumTo(arg.data, n) - SumTo(arg.data, n - arg.period),
                                arg.period)

\* C13 witness: more values than the period, the older ones different from the window's
C13_Witness ==
    /\ Returned("calculate_sma") /\ Len(arg.data) > arg.period /\ arg.period >= 2
    /\ arg.data[1] # arg.data[Len(arg.data)]
    /\ ret # None /\ ret # Mean(arg.data)

StrictlyRising(c, i, j) == \A k \in (i + 1)..j : c[k] > c[k - 1]
StrictlyFalling(c, i, j) == \A k \in (i + 1)..j : c[k] < c[k - 1]

\* C14: obv[0] = volumes[0]; each later entry adds the day's volume when the
\* close rose, subtracts it when the close fell and repeats the entry before it
\* when the close is unchanged; so, the volumes being non-negative, OBV never
\* falls across a run of strictly rising closes and never rises across a run of
\* strictly falling closes.
C14_ObvFollowsCloses ==
    Returned("calculate_obv") =>
        LET c == arg.closes
            v == arg.volumes
        IN  /\ Len(ret) = Len(c)
            /\ ret[1] = v[1]
            /\ \A i \in 2..Len(c) :
                   /\ c[i] > c[i - 1] => ret[i] = ret[i - 1] + v[i]
                   /\ c[i] < c[i - 1] => ret[i] = ret[i - 1] - v[i]
                   /\ c[i] = c[i - 1] => ret[i] = ret[i - 1]
            /\ \A i \in 1..Len(c) : \A j \in i..Len(c) :
                   /\ StrictlyRising(c, i, j) => ret[j] >= ret[i]
                   /\ StrictlyFalling(c, i, j) => ret[j] <= ret[i]

\* C14 witness: a rise, a fall and an unchanged close, with non-zero volumes
C14_Witness ==
    /\ Returned("calculate_obv") /\ Len(arg.closes) = 4
    /\ arg.closes[2] > arg.closes[1] /\ arg.closes[3] < arg.closes[2]
    /\ arg.closes[4] = arg.closes[3]
    /\ \A i \in 1..4 : arg.volumes[i] > 0
    /\ ret[2] > ret[1] /\ ret[3] < ret[2] /\ ret[4] = ret[3]

\* highs, lows and closes each rise by the same positive step every day
IsRamp(hs, ls, cs) ==
    /\ Len(hs) = Len(cs) /\ Len(ls) = Len(cs)
    /\ \E step \in 1..MaxRampStep :
           \A k \in 2..Len(cs) :
               /\ hs[k] - hs[k - 1] = step
               /\ ls[k] - ls[k - 1] = step
               /\ cs[k] - cs[k - 1] = step

\* C15: on a price ramp a defined ADX exceeds 25.
C15_RampAdxAbove25 ==
    (Returned("calculate_adx") /\ IsRamp(arg.highs, arg.lows, arg.closes)) =>
        (ret # None => RGt(ret, RInt(25)))

\* C15 witness: a defined ADX(14) on a ramp
C15_Witness ==
    /\ Returned("calculate_adx") /\ IsRamp(arg.highs, arg.lows, arg.closes)
    /\ arg.period = AdxPeriod /\ Len(arg.closes) > 2 * AdxPeriod
    /\ ret # None /\ RGt(ret, RInt(25))

----------------------------------------------------------------------------
(* Claims about the preprocessing of calculate_trading_signal (SpecOrder) *)

\* the number of dates of the delivered mapping that are later than d
LaterDates(d) == Cardinality({e \in DOMAIN provided : e > d})

\* the date with r later dates
DateBefore(r) == CHOOSE d \in DOMAIN provided : LaterDates(d) = r

\* C16: the arrays hold the bars of the most recent min(n, 200) dates of the
\* mapping in ascending date order whatever order the mapping lists them in,
\* index i of closes, highs, lows and volumes belonging to the same date; the
\* current price is the newest bar's close and the previous close that of the
\* bar before it.
C16_ArraysAscendingMostRecent ==
    (pc \in {"extracted", "indicators", "slopes", "done"} /\ closes # None) =>
        LET n == BarsDelivered
            kept == IF n >= 200 THEN 200 ELSE n
        IN  /\ Len(closes) = kept /\ Len(highs) = kept
            /\ Len(lows) = kept /\ Len(volumes) = kept
            /\ \A d \in DOMAIN provided :
                   LET r == LaterDates(d)
                   IN  r < kept =>
                           /\ closes[kept - r] = provided[d].close
                           /\ highs[kept - r] = provided[d].high
                           /\ lows[kept - r] = provided[d].low
                           /\ volumes[kept - r] = provided[d].volume
            /\ current_price = RInt(provided[DateBefore(0)].close)
            /\ (pc = "done" /\ result # None) =>
                   /\ result.current_price = RInt(provided[DateBefore(0)].close)
                   /\ result.previous_close = RInt(provided[DateBefore(1)].close)

\* C16 witness: more than 200 bars, listed newest first, and a returned dict
C16_Witness ==
    /\ pc = "done" /\ result # None
    /\ BarsDelivered > 200 /\ key_order = NewestFirst(provided)
    /\ Len(closes) = 200
    /\ result.previous_close # result.current_price

----------------------------------------------------------------------------
(* Claims about the key pool (SpecKeys) *)

\* the cursor before the i-th call (the module starts it at 0)
CursorBefore(i) == IF i = 1 THEN 0 ELSE calls[i - 1].cursor

\* C18: on a non-empty pool the cursor stays within the pool, every call
\* returns the pool entry at the cursor, a switch moves the cursor one entry on
\* and from the last entry back to 0, and len(pool) switches in a row bring
\* the cursor back to where it was.
C18_CursorCyclesThroughPool ==
    (pc = "keys" /\ Len(ALPHAVANTAGE_KEYS) > 0) =>
        LET n == Len(ALPHAVANTAGE_KEYS)
        IN  /\ current_key_index \in 0..(n - 1)
            /\ \A i \in 1..Len(calls) :
                   /\ calls[i].cursor \in 0..(n - 1)
                   /\ calls[i].ret = ALPHAVANTAGE_KEYS[calls[i].cursor + 1]
                   /\ calls[i].fn = "switch_api_key" =>
                          calls[i].cursor = IF CursorBefore(i) = n - 1 THEN 0
                                            ELSE CursorBefore(i) + 1
                   /\ calls[i].fn = "get_api_key" => calls[i].cursor = CursorBefore(i)
            /\ \A i \in 1..(Len(calls) - n + 1) :
                   (\A j \in i..(i + n - 1) : calls[j].fn = "switch_api_key")
                       => calls[i + n - 1].cursor = CursorBefore(i)

\* C18 witness: two keys, a switch to the backup key and a switch back
C18_Witness ==
    /\ pc = "keys" /\ Len(ALPHAVANTAGE_KEYS) = 2 /\ Len(calls) >= 3
    /\ calls[1].fn = "switch_api_key" /\ calls[1].cursor = 1
    /\ calls[1].ret = ConfiguredKeys[2]
    /\ calls[2].fn = "switch_api_key" /\ calls[2].cursor = 0
    /\ calls[3].fn = "get_api_key" /\ calls[3].ret = ConfiguredKeys[1]

----------------------------------------------------------------------------
(* Claims about the batch loops (SpecBatch) *)

\* the series the call of a symbol received, None if none was delivered
SeriesOf(call) ==
    IF call.delivered THEN ProviderInput(provider[call.symbol]).series ELSE None

\* the calls made before the current one that received the series it received
EarlierSameSeries ==
    {i \in 1..Len(calls) : calls[i].delivered /\ SeriesOf(calls[i]) = time_series}

HasNonPositivePrice(ts) ==
    \E d \in DOMAIN ts : ts[d].close <= 0 \/ ts[d].high <= 0 \/ ts[d].low <= 0

\* the list holds an entry of the symbol
Lists(list, symbol) ==
    \E j \in 1..Len(list) : list[j].symbol = symbol

\* C19: a call that received a series with a non-positive price at some bar
\* returns no result, and the list the batch collects and returns holds no
\* entry of its symbol.  (The dates are the keys of a mapping and are sorted
\* before use, so the bars are never used out of date order.)
C19_InvalidSeriesIsSkipped ==
    \A i \in 1..Len(calls) :
        (calls[i].delivered /\ HasNonPositivePrice(SeriesOf(calls[i]))) =>
            /\ calls[i].result = None
            /\ ~Lists(stocks_data, calls[i].symbol)
            /\ (pc = "batch_done" /\ returned = stocks_data) =>
                   ~Lists(returned, calls[i].symbol)

\* the kinds of symbol with too few bars, too few bars for the long average,
\* or a failed request
NoResultKinds == {"short", "partial", "error", "exception", "limited_twice"}

CollectableCall(call) == Collectable(call.result)

\* C20: once fetch_top10_sp500_stocks has entered its loop, the calls of
\* calculate_trading_signal made so far are those of the first symbols of
\* TOP_10_SP500, one each and in list order, and all ten when the function
\* returns; no exception leaves a call; a symbol with insufficient data, an
\* indeterminate result or a failed request gets None; and the collected
\* list holds, in order, exactly the symbols whose call returned a result
\* with positive prices, so that a symbol without result is the only one left
\* out on its account.
C20_EverySymbolOnceInOrder ==
    (symbols = TOP_10_SP500 /\ pc \notin {"batch_start", "batch_raised"}) =>
        /\ pc # "raised"
        /\ idx \in {Len(calls), Len(calls) + 1}
        /\ idx <= Len(symbols)
        /\ \A i \in 1..Len(calls) : calls[i].symbol = TOP_10_SP500[i]
        /\ pc = "batch_done" => Len(calls) = Len(TOP_10_SP500)
        /\ \A i \in 1..Len(calls) :
               provider[calls[i].symbol] \in NoResultKinds => calls[i].result = None
        /\ LET kept == SelectSeq(calls, CollectableCall)
           IN  /\ Len(stocks_data) = Len(kept)
               /\ \A j \in 1..Len(kept) : stocks_data[j].symbol = kept[j].symbol

\* C20 witness: the loop has ended; a symbol in the middle of the list got no
\* result, and the symbols before and after it are in the returned list
C20_Witness ==
    /\ symbols = TOP_10_SP500 /\ pc = "batch_done" /\ returned = stocks_data
    /\ \E j \in 2..(Len(calls) - 1) :
           /\ provider[calls[j].symbol] \in NoResultKinds
           /\ calls[j].result = None
           /\ ~Lists(returned, calls[j].symbol)
           /\ Lists(returned, calls[j - 1].symbol)
           /\ Lists(returned, calls[j + 1].symbol)

\* the calls so far that produced a signal
Signalled == SelectSeq(calls, LAMBDA call : call.result # None)

\* C21: fetch_top10_sp500_stocks always returns, never raises, also with no
\* key configured; what it returns is a non-empty list: the collected
\* entries when at least MinStocks symbols produced a signal, else the ten
\* mock entries, and never entries of both kinds.
C21_AlwaysReturnsAList ==
    symbols = TOP_10_SP500 =>
        /\ pc # "batch_raised"
        /\ pc = "batch_done" =>
               /\ returned # <<>>
               /\ returned = IF Len(Signalled) >= MinStocks THEN stocks_data
                             ELSE generate_mock_data(TOP_10_SP500)

\* the key the retry of the current call was sent with: the one
\* switch_api_key returned
RetryKey == get_api_key(current_key_index)

\* C23: with two keys in the pool, whenever a call made by a batch has sent a
\* retry after a rate-limit answer, the retry went out with a key other than
\* the key of the request that was rate-limited (the api_key the batch passed).
C23_RetryUsesAnotherKey ==
    (symbols # <<>> /\ Len(ALPHAVANTAGE_KEYS) >= 2 /\ requests_sent = 2) =>
        RetryKey # api_key

----------------------------------------------------------------------------
(* Claims about the charts (SpecCharts) *)

\* the names of the markets enabled in the preferences given
EnabledNames ==
    {ChartName(Markets[i]) : i \in {j \in 1..Len(Markets) :
        IF user_prefs = None THEN TRUE ELSE user_prefs[Markets[j]]}}

\* C22: generate_market_charts returns a chart for every enabled market and
\* for no other, whatever the provider answers and whichever keys are
\* configured: none when no market is enabled, three when all are.
C22_ChartForEveryEnabledMarket ==
    pc = "charts_done" => DOMAIN charts = EnabledNames

----------------------------------------------------------------------------
(* Claims about the requests (SpecGateway) *)

\* the calls of fetch_alphavantage_data a step makes
NewCalls == {calls'[i] : i \in (Len(calls) + 1)..Len(calls')}

\* C24: a call of calculate_trading_signal sends no more than two requests,
\* the second only after a rate-limit answer to the first; it moves the key
\* cursor by at most one switch, and only when it sends the requests; and it
\* returns None when the retry is not answered with a time series.  Every
\* call of fetch_alphavantage_data likewise sends one or two requests, moves
\* the cursor by at most one switch and returns None after an unanswered retry.
C24_AtMostOneRetry ==
    [][/\ requests_sent' \in 0..2
       /\ pc = "call" =>
              /\ current_key_index' \in
                     {current_key_index, switch_api_key(current_key_index)}
              /\ requests_sent' = 2 =>
                     /\ responses[1] = "limited"
                     /\ responses[2] # "series" => (pc' = "done" /\ result' = None)
       /\ pc \in {"fetched", "extracted", "indicators", "slopes", "done"} =>
              (current_key_index' = current_key_index /\ requests_sent' = requests_sent)
       /\ \A call \in NewCalls :
              /\ call.requests \in 1..2
              /\ call.cursor \in {call.cursor_before, switch_api_key(call.cursor_before)}
              /\ (call.requests = 2 /\ ~call.delivered) => call.ohlc_data = None
      ]_vars

\* C24 witness: a call of fetch_alphavantage_data on two keys that was
\* rate-limited twice: two requests, one switch, no data
C24_Witness ==
    \E i \in 1..Len(calls) :
        /\ Len(ALPHAVANTAGE_KEYS) = 2
        /\ calls[i].requests = 2 /\ ~calls[i].delivered
        /\ calls[i].cursor # calls[i].cursor_before
        /\ calls[i].ohlc_data = None

----------------------------------------------------------------------------
(* Claims about the daily batch (SpecDaily) *)

\* C25: the daily batch never ends on an exception, and when it ends it has
\* been through every user read from the database, once each and in database
\* order, whether or not the mail server accepted the emails of the users
\* before.
C25_EveryUserProcessed ==
    /\ pc # "main_raised"
    /\ pc = "main_done" =>
           /\ Len(log) = Len(user_info)
           /\ \A i \in 1..Len(log) : log[i].email = user_info[i].email

\* the flag of the user the i-th iteration was about
Flag(i, name) == user_info[i].flags[name]

----------------------------------------------------------------------------
(* Claims about the web application (SpecWeb) *)

EmailsStored(rows) == {rows[i].email : i \in 1..Len(rows)}

\* C27: whatever request is handled, no two stored users share an email
\* afterwards; a submit whose email belongs to a stored user leaves the table
\* as it is, text and flags of that user included, and sends no email; a
\* submit with a new email and an empty or blank text creates no record.
C27_UniqueEmails ==
    [][/\ Cardinality(EmailsStored(users')) = Len(users')
       /\ outbox'.handler = "submit" =>
              /\ outbox'.email \in EmailsStored(users) =>
                     (users' = users /\ outbox'.mail = NoEmail)
              /\ (outbox'.email \notin EmailsStored(users)
                      /\ outbox'.text \in {<<"">>, <<" ">>}) =>
                     (users' = users /\ outbox'.mail = NoEmail)
      ]_vars

\* C27 witness: two users are stored, and the request just handled was a
\* submit with the email of one of them and another text than the stored one
C27_Witness ==
    /\ Len(users) = 2
    /\ outbox.handler = "submit" /\ outbox.response = "sameuser"
    /\ \E i \in 1..Len(users) :
           users[i].email = outbox.email /\ users[i].text # outbox.text

\* C28: an unsubscribe POST whose token is that of a stored user deletes that
\* user and changes no other row; a POST with a token that is no stored
\* user's deletes nothing, whatever email the form carries; a GET deletes
\* nothing.
C28_UnsubscribeByToken ==
    [][outbox'.handler = "unsubscribe" =>
           LET token == outbox'.token
               matching == {i \in 1..Len(users) : users[i].unsubscribe_token = token}
           IN  /\ (outbox'.method = "POST" /\ matching # {}) =>
                      /\ Cardinality(matching) = 1
                      /\ users' = SelectSeq(users,
                                            LAMBDA row : row.unsubscribe_token # token)
                      /\ Len(users') = Len(users) - 1
               /\ (outbox'.method = "POST" /\ token # NoToken /\ matching = {}) =>
                      users' = users
               /\ outbox'.method = "GET" => users' = users
      ]_vars

\* C28 witness: a POST with a token that is nobody's and the email of a
\* stored user was handled, and the user is still stored
C28_Witness ==
    /\ outbox.handler = "unsubscribe" /\ outbox.method = "POST"
    /\ outbox.token # NoToken
    /\ \A i \in 1..Len(users) : users[i].unsubscribe_token # outbox.token
    /\ outbox.email \in EmailsStored(users)
    /\ Len(users) = 2

----------------------------------------------------------------------------
(* Claims about the news sentiment (SpecNews) *)

SentimentCall == pc = "lib_done" /\ arg.fn = "calculate_composite_sentiment"

\* the position of the first entry of the item for the ticker, 0 if none
ListedAt(item, t) ==
    LET hits == {k \in 1..Len(item.ticker_sentiment) : item.ticker_sentiment[k].ticker = t}
    IN  IF hits = {} THEN 0 ELSE CHOOSE k \in hits : \A j \in hits : k <= j

\* the score, in hundredths, an item counts with
CountedScore(item, t) ==
    IF t = NoKey THEN item.overall_sentiment_score
    ELSE item.ticker_sentiment[ListedAt(item, t)].ticker_sentiment_score

\* the item's relevance is above 0.1
Qualifies(item, t) ==
    IF t = NoKey
    THEN IF item.topics = <<>> THEN TRUE
         ELSE SumTo(item.topics, Len(item.topics)) > 10 * Len(item.topics)
    ELSE /\ ListedAt(item, t) # 0
         /\ item.ticker_sentiment[ListedAt(item, t)].relevance_score > 10

NewsCall == pc = "lib_done" /\ arg.fn = "fetch_market_news_sentiment"

\* the items of the feeds that were delivered, in the order of the requests
RECURSIVE Retrieved(_, _)
Retrieved(answers, i) ==
    IF i = 0 THEN <<>>
    ELSE Retrieved(answers, i - 1)
             \o (IF \/ answers[i].first = "feed"
                    \/ answers[i].first = "limited" /\ answers[i].retry = "feed"
                 THEN answers[i].feed ELSE <<>>)

\* the items retrieved, each URL at its first occurrence only
UniqueRetrieved ==
    LET all == Retrieved(arg.answers, Len(arg.answers))
        first == {i \in 1..Len(all) : \A j \in 1..(i - 1) : all[j].url # all[i].url}
    IN  SelectSeq([i \in 1..Len(all) |-> IF i \in first THEN all[i] ELSE None],
                  LAMBDA item : item # None)

\* C29: in the result of fetch_market_news_sentiment called with tickers or
\* topics, no two articles have the same URL, whichever ticker or topic
\* response they came from; the articles list has at most limit entries; and
\* the market sentiment is the composite sentiment of all the unique
\* articles retrieved, not only of the returned ones.
C29_UniqueArticlesWithinLimit ==
    (NewsCall /\ (arg.tickers # <<>> \/ arg.topics # <<>>) /\ ret # None) =>
        /\ \A i, j \in 1..Len(ret.articles) :
               i # j => ret.articles[i].url # ret.articles[j].url
        /\ Len(ret.articles) <= arg.limit
        /\ \A i \in 1..Len(ret.articles) : ret.articles[i] = UniqueRetrieved[i]
        /\ ret.market_sentiment = calculate_composite_sentiment(UniqueRetrieved, NoKey)

\* a call for a ticker and a topic whose responses share a URL and hold more
\* unique articles than limit, the market sentiment differing from that of
\* the returned articles alone
C29_Witness ==
    /\ NewsCall /\ arg.tickers # <<>> /\ arg.topics # <<>> /\ ret # None
    /\ \E i \in 1..Len(arg.answers[1].feed), j \in 1..Len(arg.answers[2].feed) :
           arg.answers[1].feed[i].url = arg.answers[2].feed[j].url
    /\ Len(UniqueRetrieved) > arg.limit
    /\ Len(ret.articles) = arg.limit
    /\ ret.market_sentiment # calculate_composite_sentiment(ret.articles, NoKey)

====
